---- MODULE Spec2Model ----
(***************************************************************************)
(* A model of the Discord community agent: the analytics ledger            *)
(* (src/analytics.ts), its conversation memory, its debounced snapshots    *)
(* and the approval workflow of welcome replies (src/agent.ts, the V2      *)
(* program that starts at line 482).                                       *)
(*                                                                         *)
(* Node runs every handler on one event loop: a handler runs without       *)
(* interruption from one await to the next.  Each action below is one such *)
(* uninterrupted stretch of code; the external calls (the completion       *)
(* service, Discord, Slack, the file system) answer with an outcome drawn  *)
(* from a small set.  Time is counted in milliseconds, as Date.now() does. *)
(***************************************************************************)
EXTENDS Integers, Sequences, FiniteSets, TLC

VARIABLES
    \* ---- src/analytics.ts: the ledger
    messages,        \* let messages: TrackedMessage[]
    topicCounts,     \* const topicCounts: Map<channel, Map<Topic, number>>
    tasks,           \* message handlers suspended in classifyMessage / extractHelpTopic
    \* ---- src/analytics.ts: conversation memory
    conversations,   \* const conversations: Map<userId, ConversationMessage[]>
    \* ---- src/analytics.ts: persistence
    now,             \* Date.now()
    timers,          \* pending setTimeout callbacks of each store, by deadline
    saveTimeout,     \* let saveTimeout: the handle of the last ledger timer, {} when null
    convSaveTimeout, \* let convSaveTimeout, likewise
    dataFile,        \* analytics-data.json
    convFile,        \* conversations-data.json
    \* ---- src/agent.ts: the approval workflow
    pendingResponses,  \* const pendingResponses = new Map(): message id -> pending object
    heap,            \* the pending objects ever created (handlers keep references to them)
    intros,          \* welcome-channel message handlers, by message id
    handlers,        \* Slack "interactive" handlers in flight
    notif,           \* what the Slack notification of each message shows
    published,       \* texts sent to Discord threads, in order
    \* ---- src/agent.ts: startup
    startup,         \* how far the main function and the ready handler have come
    \* ---- calls of the module's pure functions
    arg,             \* the argument (or the external service's reply) of the call
    ret,             \* what the call returned
    \* ---- src/agent.ts: Slack messages
    processedSlackMessages,  \* ids of the Slack messages handled, oldest first
    \* ---- history variables (not program state)
    hist             \* what has happened so far, for stating the properties

ledgerVars  == <<messages, topicCounts, tasks>>
convVars    == <<conversations>>
timerVars   == <<timers, saveTimeout, convSaveTimeout>>
diskVars    == <<dataFile, convFile>>
wfVars      == <<pendingResponses, heap, intros, handlers, notif, published>>
callVars    == <<arg, ret, processedSlackMessages>>
vars        == <<messages, topicCounts, tasks, conversations, now, timers,
                 saveTimeout, convSaveTimeout, dataFile, convFile,
                 pendingResponses, heap, intros, handlers, notif, published,
                 startup, arg, ret, processedSlackMessages, hist>>

----------------------------------------------------------------------------
(* Bounds of the model. *)

MaxMsgs  == 3      \* messages recorded or being recorded in one run
MaxTasks == 2      \* message handlers in flight at once
MaxLoads == 2      \* calls of loadPersistedData in one run
MaxConvCalls == 3  \* calls of addToConversation and clearConversation in one run
MaxTime  == 9000   \* SpecPersist stops the clock here (ms)
MaxSaveCalls == 2  \* scheduleSave calls per store in SpecPersist
MaxHandlers == 2   \* interactive handlers in flight at once
MaxEvents == 3     \* Slack decision events delivered in SpecWorkflow
MaxParts == 3      \* a text input is made of at most this many fragments
MaxRankLog == 4    \* messages in a log of SpecRank
MaxLimit == 2      \* largest limit asked of a ranked query in SpecRank
MaxBackfill == 2    \* historical messages fetched by the startup backfill
MaxRecords == 3     \* pending objects ever created in SpecRedelivery
MaxRestarts == 1    \* restarts of the process
MaxThreadLog == 10 \* messages in a log of SpecThreads
MaxDeliveries == 4 \* message events of one behaviour of SpecEvents
MaxWords == 2 \* fragments in the text of a Slack message
MaxRouted == 2 \* deliveries of the Slack message of SpecSlackRoute
MaxSlackEvents == 103 \* deliveries of Slack messages in one behaviour of SpecSlackDedup

----------------------------------------------------------------------------
(* The closed Topic enumeration and the inputs the environment supplies. *)

Topics == {"support-request", "feature-request", "bug-report",
           "general-discussion", "praise", "question"}

\* Logical names of analytics-only channels (getChannels); "help" is the one
\* recordMessage treats specially.
AnalyticsChannels == {"general", "help"}

\* What extractHelpTopic can answer: a phrase of the service, or its fallback.
HelpTopicAnswers == {"vs code setup", "general help"}

\* What classifyMessage answers in the model's runs (any label is possible).
ClassifyAnswers == {"feature-request", "general-discussion", "praise"}

UNDEFINED == "undefined"

LEDGER == "ledger"
CONV   == "conv"
Stores == {LEDGER, CONV}

IdleTask == [pc |-> "idle", channel |-> UNDEFINED, topic |-> UNDEFINED]

\* Slack user ids that talk to the bot.
Users == {"U1", "U2"}

----------------------------------------------------------------------------
(* Debounced saves. *)

SAVE_DELAY_MS      == 5000
CONV_SAVE_DELAY_MS == 2000

QuietPeriod(store) == IF store = LEDGER THEN SAVE_DELAY_MS ELSE CONV_SAVE_DELAY_MS

\* A debounce that forgets to cancel the pending timer.
ClearTimeoutForgotten(queue, handle) == queue

\* clearTimeout(handle): a handle that fired already is not in the queue.
ClearTimeout(queue, handle) == queue \ handle

\* if (saveTimeout) clearTimeout(saveTimeout); saveTimeout = setTimeout(f, delay)
ArmedQueue(queue, handle, delay) == ClearTimeout(queue, handle) \cup {now + delay}

\* The history of one scheduleSave call on a store.
InBurst(h, store) ==
    h.lastCall[store] # {} /\ \A t \in h.lastCall[store] : now - t < QuietPeriod(store)

HistCall(h, store) ==
    [h EXCEPT
        !.burstWrites[store] = IF InBurst(h, store) THEN @ ELSE 0,
        !.burstCalls[store] = IF InBurst(h, store) THEN @ + 1 ELSE 1,
        !.calls[store] = @ + 1,
        !.writesSince[store] = 0,
        !.lastCall[store] = {now},
        !.oldestUnsaved[store] = IF @ = {} THEN {now} ELSE @]

\* The history of one snapshot write of a store (ok: the write succeeded).
HistWrite(h, store, ok) ==
    [h EXCEPT
        !.burstWrites[store] = @ + 1,
        !.writesSince[store] = @ + 1,
        !.lastWrite[store] = {now},
        !.oldestUnsaved[store] = IF ok THEN {} ELSE @,
        !.saved[store] = IF ~ok THEN @ ELSE IF store = LEDGER THEN messages ELSE conversations]

\* function debouncedSave(): void
debouncedSave ==
    /\ timers' = [timers EXCEPT ![LEDGER] = ArmedQueue(@, saveTimeout, SAVE_DELAY_MS)]
    /\ saveTimeout' = {now + SAVE_DELAY_MS}
    /\ UNCHANGED convSaveTimeout

\* function debouncedSaveConversations(): void
debouncedSaveConversations ==
    /\ timers' = [timers EXCEPT ![CONV] = ArmedQueue(@, convSaveTimeout, CONV_SAVE_DELAY_MS)]
    /\ convSaveTimeout' = {now + CONV_SAVE_DELAY_MS}
    /\ UNCHANGED saveTimeout

----------------------------------------------------------------------------
(* The ledger. *)

\* A counter update that forgets the count it read (sets 1 instead of current + 1).
IncrementCountForgetful(tc, channel, topic) ==
    LET channelTopics == IF channel \in DOMAIN tc THEN tc[channel] ELSE << >>
        updated       == [t \in DOMAIN channelTopics \cup {topic} |->
                             IF t = topic THEN 1 ELSE channelTopics[t]]
    IN  [c \in DOMAIN tc \cup {channel} |-> IF c = channel THEN updated ELSE tc[c]]

\* if (!topicCounts.has(channel)) ...; channelTopics.set(topic, (get(topic) ?? 0) + 1)
IncrementCount(tc, channel, topic) ==
    LET channelTopics == IF channel \in DOMAIN tc THEN tc[channel] ELSE << >>
        currentCount  == IF topic \in DOMAIN channelTopics THEN channelTopics[topic] ELSE 0
        updated       == [t \in DOMAIN channelTopics \cup {topic} |->
                             IF t = topic THEN currentCount + 1 ELSE channelTopics[t]]
    IN  [c \in DOMAIN tc \cup {channel} |-> IF c = channel THEN updated ELSE tc[c]]

TrackedMessage(channel, topic, helpTopic) ==
    [channel |-> channel, topic |-> topic, helpTopic |-> helpTopic, timestamp |-> now]

\* recordMessage from the point where nothing is awaited any more: the push, the
\* counter update and debouncedSave() run in one stretch.
RecordNow(channel, topic, helpTopic) ==
    /\ messages' = Append(messages, TrackedMessage(channel, topic, helpTopic))
    /\ topicCounts' = IncrementCount(topicCounts, channel, topic)
    /\ debouncedSave
    /\ hist' = HistCall(hist, LEDGER)

\* getTopicSummary(): a copy of the counters as nested records.
getTopicSummary == [c \in DOMAIN topicCounts |-> topicCounts[c]]

RECURSIVE SumOver(_, _)
SumOver(f, S) ==
    IF S = {} THEN 0
    ELSE LET x == CHOOSE y \in S : TRUE IN f[x] + SumOver(f, S \ {x})

\* getTotalCounts(): every topic starts at 0 and the counters of all channels are added.
getTotalCounts ==
    [t \in Topics |->
        SumOver([c \in DOMAIN topicCounts |->
                    IF t \in DOMAIN topicCounts[c] THEN topicCounts[c][t] ELSE 0],
                DOMAIN topicCounts)]

ActiveTasks == {i \in DOMAIN tasks : tasks[i].pc # "idle"}

\* discordClient.on(MessageCreate), analytics-only branch, up to
\* `await classifyMessage(message.content)`.
analyticsOnly(channel) ==
    /\ Len(messages) + Cardinality(ActiveTasks) < MaxMsgs
    /\ \E i \in DOMAIN tasks :
        /\ tasks[i].pc = "idle"
        /\ \A j \in DOMAIN tasks : j < i => tasks[j].pc # "idle"
        /\ tasks' = [tasks EXCEPT ![i] = [IdleTask EXCEPT !.pc = "classify", !.channel = channel]]
    /\ UNCHANGED <<messages, topicCounts, conversations, now, timerVars, diskVars, hist, wfVars, startup>>

MessageCreate(channel) == analyticsOnly(channel) /\ UNCHANGED callVars

\* classifyMessage answers (it never throws); recordMessage starts and either
\* suspends in extractHelpTopic (channel "help") or records at once.
ClassifyReturn(i, topic) ==
    /\ tasks[i].pc = "classify"
    /\ IF tasks[i].channel = "help"
       THEN /\ tasks' = [tasks EXCEPT ![i].pc = "extract", ![i].topic = topic]
            /\ UNCHANGED <<messages, topicCounts, timerVars, hist>>
       ELSE /\ tasks' = [tasks EXCEPT ![i] = IdleTask]
            /\ RecordNow(tasks[i].channel, topic, UNDEFINED)
    /\ UNCHANGED <<conversations, now, diskVars, wfVars, startup, callVars>>

\* extractHelpTopic answers (it never throws either); recordMessage goes on.
ExtractReturn(i, helpTopic) ==
    /\ tasks[i].pc = "extract"
    /\ tasks' = [tasks EXCEPT ![i] = IdleTask]
    /\ RecordNow(tasks[i].channel, tasks[i].topic, helpTopic)
    /\ UNCHANGED <<conversations, now, diskVars, wfVars, startup, callVars>>

\* recordTopic(channel, topic): the counter update alone, no log entry, no save.
RecordTopic(channel, topic) ==
    /\ SumOver(getTotalCounts, Topics) < MaxMsgs
    /\ topicCounts' = IncrementCount(topicCounts, channel, topic)
    /\ UNCHANGED <<messages, tasks, conversations, now, timerVars, diskVars, hist, wfVars, startup, callVars>>

\* resetAnalytics(): messages.length = 0; topicCounts.clear()
ResetAnalytics ==
    /\ messages' = << >>
    /\ topicCounts' = << >>
    /\ UNCHANGED <<tasks, conversations, now, timerVars, diskVars, hist, wfVars, startup, callVars>>

----------------------------------------------------------------------------
(* The snapshots on disk and loadPersistedData. *)

MissingFile == [state |-> "missing"]
CorruptFile == [state |-> "corrupt"]

\* JSON.stringify writes a Date as its ISO string; new Date(string) reads it back.
ToISO(ms)    == [iso |-> ms]
NewDate(str) == str.iso

\* JSON.stringify({ messages }) and JSON.stringify({ conversations: convObj })
Stringify(seq) == [i \in 1..Len(seq) |-> [seq[i] EXCEPT !.timestamp = ToISO(@)]]

\* xs.map(m => ({ ...m, timestamp: new Date(m.timestamp) }))
ParseDates(seq) == [i \in 1..Len(seq) |-> [seq[i] EXCEPT !.timestamp = NewDate(@)]]

DataFileOf(msgs) == [state |-> "valid", messages |-> Stringify(msgs)]
ConvFileOf(conv) == [state |-> "valid",
                     conversations |-> [u \in DOMAIN conv |-> Stringify(conv[u])]]

\* A deliberately wrong load: the counters are not rebuilt from the messages read.
CountersNotRebuilt(tc, msgs, i) == tc

\* for (const msg of messages) { ... channelTopics.set(msg.topic, currentCount + 1) }
RECURSIVE RebuildCounts(_, _, _)
RebuildCounts(tc, msgs, i) ==
    IF i > Len(msgs) THEN tc
    ELSE RebuildCounts(IncrementCount(tc, msgs[i].channel, msgs[i].topic), msgs, i + 1)

\* conversations.set(userId, parsedMsgs) for every entry of the file
SetAll(conv, entries) ==
    [u \in DOMAIN conv \cup DOMAIN entries |->
        IF u \in DOMAIN entries THEN ParseDates(entries[u]) ELSE conv[u]]

\* loadPersistedData(): one try block around both files.  A missing file is
\* skipped; a file that cannot be parsed throws into the common catch.
loadPersistedData ==
    /\ hist.loads < MaxLoads
    /\ hist' = [hist EXCEPT !.loads = @ + 1]
    /\ IF dataFile.state = "corrupt"
       THEN UNCHANGED <<messages, topicCounts, conversations>>
       ELSE /\ IF dataFile.state = "valid"
               THEN /\ messages' = ParseDates(dataFile.messages)
                    /\ topicCounts' = RebuildCounts(topicCounts, ParseDates(dataFile.messages), 1)
               ELSE UNCHANGED <<messages, topicCounts>>
            /\ IF convFile.state = "valid"
               THEN conversations' = SetAll(conversations, convFile.conversations)
               ELSE UNCHANGED conversations
    /\ UNCHANGED <<tasks, now, timerVars, diskVars, wfVars, callVars>>

\* loadPersistedData() called while the process runs
LoadPersistedData == loadPersistedData /\ UNCHANGED startup

\* hasPersistedData()
hasPersistedData == Len(messages) > 0

\* A deliberately wrong variant of SaveDataFires: a failed write is tried again at once.
SaveDataRetries(ok) ==
    /\ now \in timers[LEDGER]
    /\ timers' = IF ok THEN [timers EXCEPT ![LEDGER] = @ \ {now}] ELSE timers
    /\ dataFile' = IF ok THEN DataFileOf(messages) ELSE dataFile
    /\ hist' = HistWrite(hist, LEDGER, ok)
    /\ UNCHANGED <<ledgerVars, conversations, now, saveTimeout, convSaveTimeout, convFile, wfVars, startup, callVars>>

\* saveData(), run by the ledger's timer: the write may fail (caught, logged).
SaveDataFires(ok) ==
    /\ now \in timers[LEDGER]
    /\ timers' = [timers EXCEPT ![LEDGER] = @ \ {now}]
    /\ dataFile' = IF ok THEN DataFileOf(messages) ELSE dataFile
    /\ hist' = HistWrite(hist, LEDGER, ok)
    /\ UNCHANGED <<ledgerVars, conversations, now, saveTimeout, convSaveTimeout, convFile, wfVars, startup, callVars>>

\* saveConversations(), run by the conversations' timer.
SaveConversationsFires(ok) ==
    /\ now \in timers[CONV]
    /\ timers' = [timers EXCEPT ![CONV] = @ \ {now}]
    /\ convFile' = IF ok THEN ConvFileOf(conversations) ELSE convFile
    /\ hist' = HistWrite(hist, CONV, ok)
    /\ UNCHANGED <<ledgerVars, conversations, now, saveTimeout, convSaveTimeout, dataFile, wfVars, startup, callVars>>

\* The clock moves on; a timer fires when its delay has passed, so the clock
\* does not pass a pending deadline.
PendingDeadlines == UNION {timers[s] : s \in Stores}

Tick(d) ==
    /\ now + d <= MaxTime
    /\ \A t \in PendingDeadlines : now + d <= t
    /\ now' = now + d
    /\ UNCHANGED <<ledgerVars, conversations, timerVars, diskVars, hist, wfVars, startup, callVars>>

----------------------------------------------------------------------------
(* Conversation memory. *)

MAX_CONVERSATION_AGE_HOURS == 24 * 7

MaxAgeMs == MAX_CONVERSATION_AGE_HOURS * 60 * 60 * 1000

\* new Date(Date.now() - MAX_CONVERSATION_AGE_HOURS * 60 * 60 * 1000)
Cutoff == now - MaxAgeMs

\* The retention filter with the boundary on the wrong side (>= for >).
FreshInclusive(m) == m.timestamp >= Cutoff

\* m => m.timestamp > cutoff
Fresh(m) == m.timestamp > Cutoff

\* A deliberately wrong variant of FilterFresh: nothing is dropped.
FilterNothing(history) == history

\* history.filter(m => m.timestamp > cutoff)
RECURSIVE FilterFresh(_)
FilterFresh(history) ==
    IF history = << >> THEN << >>
    ELSE IF Fresh(Head(history))
         THEN <<Head(history)>> \o FilterFresh(Tail(history))
         ELSE FilterFresh(Tail(history))

\* conversations.get(userId) || []
StoredHistory(userId) ==
    IF userId \in DOMAIN conversations THEN conversations[userId] ELSE << >>

\* getConversationHistory(userId)
getConversationHistory(userId) == FilterFresh(StoredHistory(userId))

\* addToConversation(userId, role, content)
addToConversation(userId, role, content) ==
    /\ hist.convCalls < MaxConvCalls
    /\ LET turn     == [role |-> role, content |-> content, timestamp |-> now]
           filtered == Append(FilterFresh(StoredHistory(userId)), turn)
       IN  /\ conversations' = [u \in DOMAIN conversations \cup {userId} |->
                                   IF u = userId THEN filtered ELSE conversations[u]]
           /\ hist' = [HistCall(hist, CONV) EXCEPT !.convCalls = @ + 1,
                                                   !.appended[userId] = @ \cup {turn}]
    /\ debouncedSaveConversations
    /\ UNCHANGED <<ledgerVars, now, diskVars, wfVars, startup>>

\* addToConversation called from the Slack handlers
AddToConversation(userId, role, content) ==
    addToConversation(userId, role, content) /\ UNCHANGED callVars

\* A deliberately wrong variant of ClearConversation: every user's history goes.
ClearEveryConversation(userId) ==
    /\ hist.convCalls < MaxConvCalls
    /\ conversations' = << >>
    /\ hist' = [HistCall(hist, CONV) EXCEPT !.convCalls = @ + 1,
                                            !.appended[userId] = {}]
    /\ debouncedSaveConversations
    /\ UNCHANGED <<ledgerVars, now, diskVars, wfVars, startup, callVars>>

\* clearConversation(userId)
clearConversation(userId) ==
    /\ hist.convCalls < MaxConvCalls
    /\ conversations' = [u \in DOMAIN conversations \ {userId} |-> conversations[u]]
    /\ hist' = [HistCall(hist, CONV) EXCEPT !.convCalls = @ + 1,
                                            !.appended[userId] = {}]
    /\ debouncedSaveConversations
    /\ UNCHANGED <<ledgerVars, now, diskVars, wfVars, startup>>

\* clearConversation called on its own
ClearConversation(userId) == clearConversation(userId) /\ UNCHANGED callVars

\* Long idle stretches for the retention window: the clock runs to the next
\* pending timer, or, with no timer pending, jumps close to a week ahead.
LongSteps == {MaxAgeMs - CONV_SAVE_DELAY_MS - 1, MaxAgeMs - CONV_SAVE_DELAY_MS, MaxAgeMs}

ConvHorizon == 2 * MaxAgeMs + 2 * CONV_SAVE_DELAY_MS

TickLong ==
    /\ IF PendingDeadlines # {}
       THEN /\ now \notin PendingDeadlines
            /\ now' \in PendingDeadlines
            /\ \A t \in PendingDeadlines : now' <= t
       ELSE \E d \in LongSteps : now + d <= ConvHorizon /\ now' = now + d
    /\ UNCHANGED <<ledgerVars, conversations, timerVars, diskVars, hist, wfVars, startup, callVars>>

----------------------------------------------------------------------------
(* src/agent.ts: the approval workflow of the welcome channel.              *)
(* A welcome message gets a draft and a Slack notification with buttons;    *)
(* each click or modal submission is one run of the "interactive" handler.  *)
(* Every await is a step boundary; every external call answers ok or not.   *)

MsgIds   == {"m1", "m2"}           \* welcome messages of this run (Discord ids are unique)
StaleIds == {"m0"}                 \* a notification left over from before the last restart
AllIds   == MsgIds \cup StaleIds
Buttons  == {"approve", "edit", "reject"}   \* action_id prefixes
SUBMIT   == "view_submission"
NoDraft  == ""                     \* let suggestedResponse = ""
AiAnswers == {"Hi!", NoDraft}      \* generateResponse: a draft, or null
EditTexts == {"Welcome!", "Hello there!"}   \* response_input.value of the modal

IdleHandler ==
    [pc |-> "idle", kind |-> "", id |-> "", text |-> "",
     pending |-> 0, sendText |-> "", stored |-> ""]

NoNotification == [shows |-> "none", text |-> ""]

----------------------------------------------------------------------------
(* Startup: the main function and the ClientReady handler of src/agent.ts. *)

\* The process has just been started: nothing has run yet.
Booting == [pc |-> "main", backfill |-> FALSE, fetched |-> 0, todo |-> 0]

\* The process has loaded its files, is connected and has finished its ready handler.
Started == [pc |-> "live", backfill |-> FALSE, fetched |-> 0, todo |-> 0]

\* Discord delivers events (MessageCreate among them) only once the client is ready.
Connected == startup.pc \in {"fetch", "classify", "hung", "live"}

\* (async () => { loadPersistedData(); await discordClient.login(...) ...
Main ==
    /\ startup.pc = "main"
    /\ loadPersistedData
    /\ startup' = [startup EXCEPT !.pc = "login"]

\* A deliberately wrong ready handler: it fetches the history when data was loaded.
BackfillWanted == hasPersistedData

\* if (hasPersistedData()) { skip } else { for (const ch of analyticsChannels) ... }
BackfillNeeded == ~hasPersistedData

\* discordClient.once(ClientReady), up to `await fetchHistoricalMessages(...)`
ClientReady ==
    /\ startup.pc = "login"
    /\ startup' = IF BackfillNeeded
                  THEN [startup EXCEPT !.pc = "fetch", !.backfill = TRUE]
                  ELSE [startup EXCEPT !.pc = "live"]
    /\ UNCHANGED <<ledgerVars, conversations, now, timerVars, diskVars, hist, wfVars, callVars>>

\* fetchHistoricalMessages: textChannel.messages.fetch({ limit }) answers with n
\* messages to process (0 also when the fetch failed and the catch returned 0).
FetchReturn(n) ==
    /\ startup.pc = "fetch"
    /\ startup' = [startup EXCEPT !.pc = IF n > 0 THEN "classify" ELSE "live", !.todo = n]
    /\ UNCHANGED <<ledgerVars, conversations, now, timerVars, diskVars, hist, wfVars, callVars>>

\* The loop of fetchHistoricalMessages: `await classifyMessage` of the current
\* message answers, recordMessage appends it, and the loop goes to the next one.
BackfillClassifyReturn(channel, topic) ==
    /\ startup.pc = "classify"
    /\ RecordNow(channel, topic, UNDEFINED)
    /\ startup' = [startup EXCEPT !.pc = IF startup.todo > 1 THEN "classify" ELSE "live",
                                  !.todo = @ - 1,
                                  !.fetched = @ + 1]
    /\ UNCHANGED <<tasks, conversations, now, diskVars, wfVars, callVars>>

\* The classifyMessage call the loop awaits is one that never settles (its fetch
\* has no timeout): the loop stays at this await for good.
BackfillClassifyHangs ==
    /\ startup.pc = "classify"
    /\ startup' = [startup EXCEPT !.pc = "hung"]
    /\ UNCHANGED <<ledgerVars, conversations, now, timerVars, diskVars, hist, wfVars, callVars>>

WorkflowInit ==
    /\ pendingResponses = << >>
    /\ heap = << >>
    /\ intros = [id \in MsgIds |-> "none"]
    /\ handlers = [i \in 1..MaxHandlers |-> IdleHandler]
    /\ notif = [id \in AllIds |-> NoNotification]
    /\ published = << >>

\* The process ends and is started again: every module-level variable is built
\* anew, timers and suspended handlers are gone; the files, the Slack notifications
\* and the Discord threads stay. A message once delivered is not delivered again.
Restart ==
    /\ startup.pc = "live"
    /\ hist.loads < MaxRestarts
    /\ messages' = << >>
    /\ topicCounts' = << >>
    /\ tasks' = [i \in 1..MaxTasks |-> IdleTask]
    /\ conversations' = << >>
    /\ timers' = [s \in Stores |-> {}]
    /\ saveTimeout' = {}
    /\ convSaveTimeout' = {}
    /\ pendingResponses' = << >>
    /\ heap' = << >>
    /\ intros' = [id \in MsgIds |-> IF intros[id] = "none" THEN "none" ELSE "gone"]
    /\ handlers' = [i \in 1..MaxHandlers |-> IdleHandler]
    /\ startup' = Booting
    /\ UNCHANGED <<now, diskVars, notif, published, hist, callVars>>

\* pendingResponses.get(messageId): the object, or 0 for undefined
Get(messageId) ==
    IF messageId \in DOMAIN pendingResponses THEN pendingResponses[messageId] ELSE 0

\* A deliberately wrong Map.set: a key that is present keeps its value.
MapSetIfAbsent(map, messageId, obj) ==
    [k \in DOMAIN map \cup {messageId} |-> IF k \in DOMAIN map THEN map[k] ELSE obj]

\* pendingResponses.set(messageId, obj)
MapSet(map, messageId, obj) ==
    [k \in DOMAIN map \cup {messageId} |-> IF k = messageId THEN obj ELSE map[k]]

\* pendingResponses.delete(messageId)
MapDelete(map, messageId) ==
    [k \in DOMAIN map \ {messageId} |-> map[k]]

\* A deliberately wrong edit-submit: the text written by the reviewer is not stored.
WithoutResponse(h, obj, text) == h

\* pending.suggestedResponse = yourResponse
WithResponse(h, obj, text) ==
    [h EXCEPT ![obj].suggestedResponse = text]

Outcome(h, i, found, result) ==
    [h EXCEPT !.outcomes = @ \cup {[kind   |-> handlers[i].kind,
                                    id     |-> handlers[i].id,
                                    found  |-> found,
                                    stale  |-> \/ handlers[i].id \in StaleIds
                                               \/ intros[handlers[i].id] = "gone",
                                    result |-> result]}]

LastText(h, id) ==
    IF id \in MsgIds /\ Len(h.texts[id]) > 0 THEN h.texts[id][Len(h.texts[id])] ELSE ""

storeVars == <<ledgerVars, conversations, now, timerVars, diskVars, startup, callVars>>

\* MessageCreate in the welcome channel, up to the first await (generateResponse)
welcome(id) ==
    /\ intros[id] = "none"
    /\ intros' = [intros EXCEPT ![id] = "generate"]
    /\ UNCHANGED <<ledgerVars, conversations, now, timerVars, diskVars, startup,
                   pendingResponses, heap, handlers, notif, published, hist>>

WelcomeMessageCreate(id) == welcome(id) /\ UNCHANGED callVars

\* MessageCreate for a message that was handled before (Discord delivers an event
\* again after a resumed connection; the handler does not look at what it has seen).
MessageCreateAgain(id) ==
    /\ intros[id] = "done"
    /\ Len(heap) < MaxRecords
    /\ intros' = [intros EXCEPT ![id] = "generate"]
    /\ UNCHANGED <<storeVars, pendingResponses, heap, handlers, notif, published, hist>>

\* generateResponse resolves: the record is stored, chat.postMessage is called
GenerateReturn(id, aiResponse) ==
    /\ intros[id] = "generate"
    /\ heap' = Append(heap, [messageId |-> id, suggestedResponse |-> aiResponse,
                             slackTs |-> FALSE])
    /\ pendingResponses' = MapSet(pendingResponses, id, Len(heap) + 1)
    /\ intros' = [intros EXCEPT ![id] = "notify"]
    /\ hist' = [hist EXCEPT !.texts[id] = <<aiResponse>>]
    /\ UNCHANGED <<storeVars, handlers, notif, published>>

\* A deliberately wrong variant of NotifyReturn: Approve is offered whether or not
\* there is a draft.
NotifyOffersApprove(id, ok) ==
    /\ intros[id] = "notify"
    /\ intros' = [intros EXCEPT ![id] = "done"]
    /\ IF ok
       THEN /\ heap' = IF Get(id) # 0 THEN [heap EXCEPT ![Get(id)].slackTs = TRUE] ELSE heap
            /\ notif' = [notif EXCEPT ![id] =
                            [shows |-> "new", text |-> heap[Len(heap)].suggestedResponse]]
            /\ hist' = [hist EXCEPT !.offered[id] = Buttons]
       ELSE UNCHANGED <<heap, notif, hist>>
    /\ UNCHANGED <<storeVars, pendingResponses, handlers, published>>

\* chat.postMessage resolves or rejects (the catch only logs)
NotifyReturn(id, ok) ==
    /\ intros[id] = "notify"
    /\ intros' = [intros EXCEPT ![id] = "done"]
    /\ IF ok
       THEN /\ heap' = IF Get(id) # 0 THEN [heap EXCEPT ![Get(id)].slackTs = TRUE] ELSE heap
            /\ notif' = [notif EXCEPT ![id] =
                            [shows |-> "new", text |-> heap[Len(heap)].suggestedResponse]]
            /\ hist' = [hist EXCEPT !.offered[id] =
                            IF LastText(hist, id) # NoDraft THEN Buttons
                            ELSE {"edit", "reject"}]
       ELSE UNCHANGED <<heap, notif, hist>>
    /\ UNCHANGED <<storeVars, pendingResponses, handlers, published>>

\* chat.postMessage has reached Slack: the notification and its buttons are in
\* the channel while the call of the handler has not settled yet
NotifyDelivered(id) ==
    /\ intros[id] = "notify"
    /\ notif[id].shows = "none"
    /\ notif' = [notif EXCEPT ![id] =
                    [shows |-> "new", text |-> heap[Len(heap)].suggestedResponse]]
    /\ hist' = [hist EXCEPT !.offered[id] =
                    IF LastText(hist, id) # NoDraft THEN Buttons
                    ELSE {"edit", "reject"}]
    /\ UNCHANGED <<storeVars, pendingResponses, heap, intros, handlers, published>>

\* The call settles after the notification was delivered: with the response of
\* Slack (slackTs and slackChannel are written if the record is still in the
\* map), or with an error because the response was lost (the catch only logs)
NotifyResponse(id, ok) ==
    /\ intros[id] = "notify"
    /\ notif[id].shows # "none"
    /\ intros' = [intros EXCEPT ![id] = "done"]
    /\ heap' = IF ok /\ Get(id) # 0 THEN [heap EXCEPT ![Get(id)].slackTs = TRUE] ELSE heap
    /\ UNCHANGED <<storeVars, pendingResponses, handlers, notif, published, hist>>

FreeSlots == {i \in 1..MaxHandlers : handlers[i].pc = "idle"}

\* slackSocket.on("interactive"): the handler starts and awaits ack()
Interactive(kind, id, text) ==
    /\ hist.events < MaxEvents
    /\ FreeSlots # {}
    /\ IF kind = SUBMIT
       THEN id \in hist.modal /\ text \in EditTexts
       ELSE kind \in hist.offered[id] /\ text = ""
    /\ LET i == CHOOSE k \in FreeSlots : \A j \in FreeSlots : k <= j
       IN handlers' = [handlers EXCEPT ![i] =
                          [IdleHandler EXCEPT !.pc = "ack", !.kind = kind,
                                              !.id = id, !.text = text]]
    /\ hist' = [hist EXCEPT !.events = @ + 1]
    /\ UNCHANGED <<storeVars, pendingResponses, heap, intros, notif, published>>

\* ack() settles; the handler runs to its next await
AckReturn(i, ok) ==
    LET h == handlers[i]
        obj == Get(h.id)
    IN
    /\ h.pc = "ack"
    /\ IF ~ok
       THEN /\ handlers' = [handlers EXCEPT ![i] = IdleHandler]
            /\ hist' = Outcome(hist, i, obj # 0, "threw")
            /\ UNCHANGED heap
       ELSE IF h.kind = SUBMIT
       THEN IF obj = 0
            THEN /\ handlers' = [handlers EXCEPT ![i] = IdleHandler]
                 /\ hist' = Outcome(hist, i, FALSE, "silent")
                 /\ UNCHANGED heap
            ELSE /\ heap' = WithResponse(heap, obj, h.text)
                 /\ handlers' = [handlers EXCEPT ![i].pc = "submit_update",
                                                 ![i].pending = obj]
                 /\ hist' = [hist EXCEPT !.texts[h.id] = Append(@, h.text)]
       ELSE IF obj = 0
            THEN /\ handlers' = [handlers EXCEPT ![i].pc = "expire"]
                 /\ UNCHANGED <<heap, hist>>
            ELSE /\ handlers' = [handlers EXCEPT
                        ![i].pending = obj,
                        ![i].pc = CASE h.kind = "approve" -> "thread"
                                    [] h.kind = "edit"    -> "modal"
                                    [] OTHER              -> "skip_update"]
                 /\ UNCHANGED <<heap, hist>>
    /\ UNCHANGED <<storeVars, pendingResponses, intros, notif, published>>

\* view_submission: chat.update settles (outside any try)
SubmitUpdateReturn(i, ok) ==
    LET h == handlers[i] IN
    /\ h.pc = "submit_update"
    /\ handlers' = [handlers EXCEPT ![i] = IdleHandler]
    /\ IF ok
       THEN /\ notif' = [notif EXCEPT ![h.id] = [shows |-> "ready", text |-> h.text]]
            /\ hist' = [Outcome(hist, i, TRUE, "done") EXCEPT !.offered[h.id] = Buttons]
       ELSE /\ hist' = Outcome(hist, i, TRUE, "threw")
            /\ UNCHANGED notif
    /\ UNCHANGED <<storeVars, pendingResponses, heap, intros, published>>

\* no pending record: chat.postMessage("This request has expired.") settles (outside any try)
ExpireReturn(i, ok) ==
    /\ handlers[i].pc = "expire"
    /\ handlers' = [handlers EXCEPT ![i] = IdleHandler]
    /\ hist' = Outcome(hist, i, FALSE, IF ok THEN "reported" ELSE "threw")
    /\ UNCHANGED <<storeVars, pendingResponses, heap, intros, notif, published>>

\* A deliberately wrong variant of StartThreadReturn: a failed thread creation
\* drops the pending record.
StartThreadFailureDeletes(i, ok) ==
    LET h == handlers[i] IN
    /\ h.pc = "thread"
    /\ IF ok
       THEN /\ handlers' = [handlers EXCEPT ![i].pc = "send",
                                            ![i].sendText = heap[h.pending].suggestedResponse,
                                            ![i].stored = LastText(hist, h.id)]
            /\ UNCHANGED <<hist, pendingResponses>>
       ELSE /\ handlers' = [handlers EXCEPT ![i] = IdleHandler]
            /\ hist' = Outcome(hist, i, TRUE, "failed")
            /\ pendingResponses' = MapDelete(pendingResponses, h.id)
    /\ UNCHANGED <<storeVars, heap, intros, notif, published>>

\* approve: startThread settles; on success thread.send(pending.suggestedResponse) is called
StartThreadReturn(i, ok) ==
    LET h == handlers[i] IN
    /\ h.pc = "thread"
    /\ IF ok
       THEN /\ handlers' = [handlers EXCEPT ![i].pc = "send",
                                            ![i].sendText = heap[h.pending].suggestedResponse,
                                            ![i].stored = LastText(hist, h.id)]
            /\ UNCHANGED hist
       ELSE /\ handlers' = [handlers EXCEPT ![i] = IdleHandler]
            /\ hist' = Outcome(hist, i, TRUE, "failed")
    /\ UNCHANGED <<storeVars, pendingResponses, heap, intros, notif, published>>

\* approve: thread.send settles; on success chat.update is called
SendReturn(i, ok) ==
    LET h == handlers[i] IN
    /\ h.pc = "send"
    /\ IF ok
       THEN /\ published' = Append(published,
                                [id     |-> h.id,
                                 target |-> heap[h.pending].messageId,
                                 text   |-> h.sendText,
                                 stored |-> h.stored])
            /\ handlers' = [handlers EXCEPT ![i].pc = "approve_update",
                                            ![i].text = heap[h.pending].suggestedResponse]
            /\ UNCHANGED hist
       ELSE /\ handlers' = [handlers EXCEPT ![i] = IdleHandler]
            /\ hist' = Outcome(hist, i, TRUE, "failed")
            /\ UNCHANGED published
    /\ UNCHANGED <<storeVars, pendingResponses, heap, intros, notif>>

\* approve: chat.update settles; on success pendingResponses.delete(messageId)
ApproveUpdateReturn(i, ok) ==
    LET h == handlers[i] IN
    /\ h.pc = "approve_update"
    /\ handlers' = [handlers EXCEPT ![i] = IdleHandler]
    /\ IF ok
       THEN /\ notif' = [notif EXCEPT ![h.id] = [shows |-> "sent", text |-> h.text]]
            /\ pendingResponses' = MapDelete(pendingResponses, h.id)
            /\ hist' = [Outcome(hist, i, TRUE, "done") EXCEPT !.approved = @ \cup {h.id}]
       ELSE /\ hist' = Outcome(hist, i, TRUE, "published-only")
            /\ UNCHANGED <<notif, pendingResponses>>
    /\ UNCHANGED <<storeVars, heap, intros, published>>

\* edit: views.open settles
ModalReturn(i, ok) ==
    LET h == handlers[i] IN
    /\ h.pc = "modal"
    /\ handlers' = [handlers EXCEPT ![i] = IdleHandler]
    /\ hist' = IF ok
               THEN [Outcome(hist, i, TRUE, "done") EXCEPT !.modal = @ \cup {h.id}]
               ELSE Outcome(hist, i, TRUE, "failed")
    /\ UNCHANGED <<storeVars, pendingResponses, heap, intros, notif, published>>

\* reject: chat.update settles; on success pendingResponses.delete(messageId)
SkipUpdateReturn(i, ok) ==
    LET h == handlers[i] IN
    /\ h.pc = "skip_update"
    /\ handlers' = [handlers EXCEPT ![i] = IdleHandler]
    /\ IF ok
       THEN /\ notif' = [notif EXCEPT ![h.id] = [shows |-> "skipped", text |-> ""]]
            /\ pendingResponses' = MapDelete(pendingResponses, h.id)
            /\ hist' = [Outcome(hist, i, TRUE, "done") EXCEPT !.skipped = @ \cup {h.id}]
       ELSE /\ hist' = Outcome(hist, i, TRUE, "failed")
            /\ UNCHANGED <<notif, pendingResponses>>
    /\ UNCHANGED <<storeVars, heap, intros, published>>

----------------------------------------------------------------------------
(* src/analytics.ts: text functions. A string is the sequence of its        *)
(* characters, so that trimming, lower-casing, the regular expressions and   *)
(* String.includes are computed character by character.                      *)

NoCall == [fn |-> "none"]

CallInit ==
    /\ arg = << >>
    /\ processedSlackMessages = << >>
    /\ ret = NoCall

RECURSIVE Concats(_, _)
Concats(fragments, n) ==
    IF n = 0 THEN {<< >>}
    ELSE LET shorter == Concats(fragments, n - 1)
         IN  shorter \cup {p \o f : p \in shorter, f \in fragments}

UpperChars == <<"A", "B", "C", "D", "E", "F", "G", "H", "I", "J", "K", "L", "M", "N", "O", "P", "Q", "R", "S", "T", "U", "V", "W", "X", "Y", "Z">>
LowerChars == <<"a", "b", "c", "d", "e", "f", "g", "h", "i", "j", "k", "l", "m", "n", "o", "p", "q", "r", "s", "t", "u", "v", "w", "x", "y", "z">>

LowerChar(c) ==
    IF \E k \in 1..Len(UpperChars) : UpperChars[k] = c
    THEN LowerChars[CHOOSE k \in 1..Len(UpperChars) : UpperChars[k] = c]
    ELSE c

\* String.prototype.toLowerCase
ToLowerCase(s) == [i \in 1..Len(s) |-> LowerChar(s[i])]

WhiteSpace == {" ", "\t", "\n"}   \* \s

\* String.prototype.trim
RECURSIVE Trim(_)
Trim(s) ==
    IF s = << >> THEN s
    ELSE IF s[1] \in WhiteSpace THEN Trim(Tail(s))
    ELSE IF s[Len(s)] \in WhiteSpace THEN Trim(SubSeq(s, 1, Len(s) - 1))
    ELSE s

NotQuote(c) == c \notin {"\"", "'"}

\* .replace(/["']/g, '')
RemoveQuotes(s) == SelectSeq(s, NotQuote)

\* .replace(/\s+/g, ' ')
RECURSIVE CollapseSpace(_)
CollapseSpace(s) ==
    IF s = << >> THEN s
    ELSE IF s[1] \in WhiteSpace
         THEN IF Len(s) > 1 /\ s[2] \in WhiteSpace
              THEN CollapseSpace(Tail(s))
              ELSE <<" ">> \o CollapseSpace(Tail(s))
         ELSE <<s[1]>> \o CollapseSpace(Tail(s))

EndsWith(s, suffix) ==
    /\ Len(suffix) <= Len(s)
    /\ SubSeq(s, Len(s) - Len(suffix) + 1, Len(s)) = suffix

\* .replace(/<stem>s?$/i, replacement)
ReplaceEnding(s, stem, replacement) ==
    IF EndsWith(s, stem \o <<"s">>)
    THEN SubSeq(s, 1, Len(s) - Len(stem) - 1) \o replacement
    ELSE IF EndsWith(s, stem)
    THEN SubSeq(s, 1, Len(s) - Len(stem)) \o replacement
    ELSE s

\* String.prototype.includes
Includes(s, pattern) ==
    \E i \in 0..(Len(s) - Len(pattern)) : SubSeq(s, i + 1, i + Len(pattern)) = pattern


T_general_help == <<"g", "e", "n", "e", "r", "a", "l", " ", "h", "e", "l", "p">>
T_ssh_issue == <<"s", "s", "h", " ", "i", "s", "s", "u", "e">>
T_vs_code_issue == <<"v", "s", " ", "c", "o", "d", "e", " ", "i", "s", "s", "u", "e">>

\* const mappings: Record<string, string>, in insertion order
mappings == <<
    <<<<"c", "o", "d", "e", "r", " ", "s", "e", "t", "u", "p">>, <<"c", "o", "d", "e", "r", " ", "s", "e", "t", "u", "p", " ", "i", "s", "s", "u", "e">>>>,
    <<<<"c", "o", "d", "e", "r", " ", "c", "o", "n", "f", "i", "g", "u", "r", "a", "t", "i", "o", "n">>, <<"c", "o", "d", "e", "r", " ", "s", "e", "t", "u", "p", " ", "i", "s", "s", "u", "e">>>>,
    <<<<"c", "o", "d", "e", "r", " ", "i", "n", "s", "t", "a", "l", "l">>, <<"c", "o", "d", "e", "r", " ", "s", "e", "t", "u", "p", " ", "i", "s", "s", "u", "e">>>>,
    <<<<"c", "o", "d", "e", "r", " ", "i", "n", "s", "t", "a", "l", "l", "a", "t", "i", "o", "n">>, <<"c", "o", "d", "e", "r", " ", "s", "e", "t", "u", "p", " ", "i", "s", "s", "u", "e">>>>,
    <<<<"v", "s", " ", "c", "o", "d", "e", " ", "s", "e", "t", "u", "p">>, T_vs_code_issue>>,
    <<<<"v", "s", "c", "o", "d", "e", " ", "s", "e", "t", "u", "p">>, T_vs_code_issue>>,
    <<<<"v", "s", " ", "c", "o", "d", "e", " ", "i", "s", "s", "u", "e">>, T_vs_code_issue>>,
    <<<<"v", "s", "c", "o", "d", "e", " ", "i", "s", "s", "u", "e">>, T_vs_code_issue>>,
    <<<<"v", "s", " ", "c", "o", "d", "e", " ", "c", "o", "n", "n", "e", "c", "t", "i", "o", "n">>, T_vs_code_issue>>,
    <<<<"w", "o", "r", "k", "s", "p", "a", "c", "e", " ", "i", "s", "s", "u", "e">>, <<"w", "o", "r", "k", "s", "p", "a", "c", "e", " ", "i", "s", "s", "u", "e">>>>,
    <<<<"w", "o", "r", "k", "s", "p", "a", "c", "e", " ", "c", "r", "a", "s", "h">>, <<"w", "o", "r", "k", "s", "p", "a", "c", "e", " ", "i", "s", "s", "u", "e">>>>,
    <<<<"w", "o", "r", "k", "s", "p", "a", "c", "e", " ", "c", "o", "n", "n", "e", "c", "t", "i", "o", "n">>, <<"w", "o", "r", "k", "s", "p", "a", "c", "e", " ", "i", "s", "s", "u", "e">>>>,
    <<<<"s", "s", "h", " ", "i", "s", "s", "u", "e">>, T_ssh_issue>>,
    <<<<"s", "s", "h", " ", "c", "o", "n", "n", "e", "c", "t", "i", "o", "n">>, T_ssh_issue>>,
    <<<<"s", "s", "h", " ", "s", "e", "t", "u", "p">>, T_ssh_issue>>,
    <<<<"d", "o", "c", "k", "e", "r", " ", "i", "s", "s", "u", "e">>, <<"d", "o", "c", "k", "e", "r", " ", "i", "s", "s", "u", "e">>>>,
    <<<<"d", "o", "c", "k", "e", "r", " ", "s", "e", "t", "u", "p">>, <<"d", "o", "c", "k", "e", "r", " ", "i", "s", "s", "u", "e">>>>,
    <<<<"d", "e", "v", "c", "o", "n", "t", "a", "i", "n", "e", "r", " ", "i", "s", "s", "u", "e">>, <<"d", "e", "v", "c", "o", "n", "t", "a", "i", "n", "e", "r", " ", "i", "s", "s", "u", "e">>>>,
    <<<<"d", "e", "v", "c", "o", "n", "t", "a", "i", "n", "e", "r", " ", "s", "e", "t", "u", "p">>, <<"d", "e", "v", "c", "o", "n", "t", "a", "i", "n", "e", "r", " ", "i", "s", "s", "u", "e">>>>,
    <<<<"t", "e", "m", "p", "l", "a", "t", "e", " ", "i", "s", "s", "u", "e">>, <<"t", "e", "m", "p", "l", "a", "t", "e", " ", "i", "s", "s", "u", "e">>>>,
    <<<<"t", "e", "m", "p", "l", "a", "t", "e", " ", "s", "e", "t", "u", "p">>, <<"t", "e", "m", "p", "l", "a", "t", "e", " ", "i", "s", "s", "u", "e">>>>,
    <<<<"a", "u", "t", "h", "e", "n", "t", "i", "c", "a", "t", "i", "o", "n", " ", "i", "s", "s", "u", "e">>, <<"a", "u", "t", "h", "e", "n", "t", "i", "c", "a", "t", "i", "o", "n", " ", "i", "s", "s", "u", "e">>>>,
    <<<<"a", "u", "t", "h", " ", "i", "s", "s", "u", "e">>, <<"a", "u", "t", "h", "e", "n", "t", "i", "c", "a", "t", "i", "o", "n", " ", "i", "s", "s", "u", "e">>>>,
    <<<<"l", "o", "g", "i", "n", " ", "i", "s", "s", "u", "e">>, <<"a", "u", "t", "h", "e", "n", "t", "i", "c", "a", "t", "i", "o", "n", " ", "i", "s", "s", "u", "e">>>>,
    <<<<"g", "i", "t", " ", "i", "s", "s", "u", "e">>, <<"g", "i", "t", " ", "i", "s", "s", "u", "e">>>>,
    <<<<"g", "i", "t", " ", "a", "u", "t", "h", "e", "n", "t", "i", "c", "a", "t", "i", "o", "n">>, <<"g", "i", "t", " ", "i", "s", "s", "u", "e">>>>,
    <<<<"g", "i", "t", "h", "u", "b", " ", "i", "s", "s", "u", "e">>, <<"g", "i", "t", " ", "i", "s", "s", "u", "e">>>>,
    <<<<"u", "n", "k", "n", "o", "w", "n", " ", "i", "s", "s", "u", "e">>, T_general_help>>,
    <<<<"n", "o", " ", "m", "a", "i", "n", " ", "t", "o", "p", "i", "c", " ", "e", "x", "t", "r", "a", "c", "t", "e", "d">>, T_general_help>>,
    <<<<"g", "e", "n", "e", "r", "a", "l", " ", "h", "e", "l", "p">>, T_general_help>>>>

\* The chain of replacements at the head of normalizeHelpTopic
Cleaned(topic) ==
    ReplaceEnding(
        ReplaceEnding(
            ReplaceEnding(
                ReplaceEnding(CollapseSpace(RemoveQuotes(Trim(ToLowerCase(topic)))),
                              <<"i", "s", "s", "u", "e">>, <<"i", "s", "s", "u", "e">>),
                <<"p", "r", "o", "b", "l", "e", "m">>, <<"i", "s", "s", "u", "e">>),
            <<"e", "r", "r", "o", "r">>, <<"e", "r", "r", "o", "r">>),
        <<"q", "u", "e", "s", "t", "i", "o", "n">>, <<"q", "u", "e", "s", "t", "i", "o", "n">>)

\* A deliberately wrong variant of normalizeHelpTopic: the topic is left as it is.
Unnormalized(topic) == topic

\* A deliberately wrong variant of normalizeHelpTopic: the last entry that matches wins.
LastMatchWins(topic) ==
    LET normalized == Cleaned(topic)
        hits == {k \in 1..Len(mappings) : Includes(normalized, mappings[k][1])}
    IN  IF hits # {}
        THEN mappings[CHOOSE k \in hits : \A j \in hits : k >= j][2]
        ELSE normalized

\* function normalizeHelpTopic(topic: string): string
normalizeHelpTopic(topic) ==
    LET normalized == Cleaned(topic)
        hits == {k \in 1..Len(mappings) : Includes(normalized, mappings[k][1])}
    IN  IF hits # {}
        THEN mappings[CHOOSE k \in hits : \A j \in hits : k <= j][2]
        ELSE normalized

\* Raw help-topic phrases, as pieces that are put together
PhraseFragments ==
    {<<"v", "s", " ", "c", "o", "d", "e">>,
     <<"v", "s", "c", "o", "d", "e">>,
     <<"V", "S", " ", "C", "o", "d", "e">>,
     <<"s", "s", "h">>,
     <<" ", "s", "e", "t", "u", "p">>,
     <<" ", "i", "s", "s", "u", "e", "s">>,
     <<" ", "c", "r", "a", "s", "h">>,
     <<"u", "n", "k", "n", "o", "w", "n", " ", "i", "s", "s", "u", "e">>,
     <<"n", "o", " ", "m", "a", "i", "n", " ", "t", "o", "p", "i", "c">>,
     <<" ">>,
     <<"'">>}

Phrases == Concats(PhraseFragments, MaxParts)

\* normalizeHelpTopic is called on the argument
NormalizeCall ==
    /\ ret = NoCall
    /\ ret' = [fn |-> "normalizeHelpTopic", value |-> normalizeHelpTopic(arg)]
    /\ UNCHANGED <<ledgerVars, conversations, now, timerVars, diskVars, wfVars, startup, arg, processedSlackMessages, hist>>

----------------------------------------------------------------------------
(* src/analytics.ts: the ranked queries getTopHelpTopics and getTopThreads. *)

\* A deliberately wrong variant of ExtractedTopic: no fallback for an empty text.
ExtractedOrEmpty(response) == ToLowerCase(Trim(response))

\* extractHelpTopic: data.response?.trim().toLowerCase() || 'general help'
ExtractedTopic(response) ==
    LET t == ToLowerCase(Trim(response))
    IN  IF t = << >> THEN T_general_help ELSE t

\* What the model answers to the extractHelpTopic prompt
HelpReplies ==
    {<<"V", "S", " ", "C", "o", "d", "e", " ", "s", "e", "t", "u", "p">>,
     <<"v", "s", "c", "o", "d", "e", " ", "i", "s", "s", "u", "e">>,
     <<"V", "S", "C", "o", "d", "e", " ", "S", "e", "t", "u", "p">>,
     <<"S", "S", "H", " ", "i", "s", "s", "u", "e", "s">>,
     <<"t", "e", "m", "p", "l", "a", "t", "e", "s">>}

\* A TrackedMessage as recordMessage pushes it, with its thread fields
ForumMessage(channel, helpTopic, threadId, threadName) ==
    [channel |-> channel, topic |-> "support-request", helpTopic |-> helpTopic,
     timestamp |-> 0, threadId |-> threadId, threadName |-> threadName]

ALPHA == [id |-> "t-alpha", name |-> "Alpha"]
BETA  == [id |-> "t-beta",  name |-> "Beta"]

InThread(thread)  == ForumMessage("help", ExtractedTopic(<<"S", "S", "H", " ", "i", "s", "s", "u", "e", "s">>), thread.id, thread.name)
PlainMessage      == ForumMessage("general", UNDEFINED, UNDEFINED, UNDEFINED)

RankMessages ==
    {ForumMessage("help", ExtractedTopic(r), UNDEFINED, UNDEFINED) : r \in HelpReplies}
        \cup {InThread(ALPHA), InThread(BETA), PlainMessage}

\* m.channel === 'help' && m.helpTopic
HasHelpTopic(m) == m.channel = "help" /\ m.helpTopic # << >>

\* msg.threadId && msg.threadName
HasThread(m) ==
    /\ m.threadId # UNDEFINED /\ m.threadId # ""
    /\ m.threadName # UNDEFINED /\ m.threadName # ""

\* The keys of a Map in insertion order: each key where it is first set
RECURSIVE FirstSeen(_)
FirstSeen(keys) ==
    IF keys = << >> THEN << >>
    ELSE LET before == FirstSeen(SubSeq(keys, 1, Len(keys) - 1))
             last   == keys[Len(keys)]
         IN  IF \E i \in 1..Len(before) : before[i] = last
             THEN before ELSE Append(before, last)

Occurrences(keys, key) == Cardinality({j \in 1..Len(keys) : keys[j] = key})

\* A deliberately wrong variant of SortPosition: equal counts come out in reverse.
SortPositionReversed(counts, i) ==
    1 + Cardinality({j \in 1..Len(counts) :
                        counts[j] > counts[i] \/ (counts[j] = counts[i] /\ j > i)})

\* Array.prototype.sort((a, b) => b.count - a.count), a stable sort: the place
\* of element i is after every larger count and every equal count before it
SortPosition(counts, i) ==
    1 + Cardinality({j \in 1..Len(counts) :
                        counts[j] > counts[i] \/ (counts[j] = counts[i] /\ j < i)})

SortByCountDesc(entries, counts) ==
    [k \in 1..Len(entries) |->
        entries[CHOOSE i \in 1..Len(entries) : SortPosition(counts, i) = k]]

\* A deliberately wrong variant of Slice: the limit is ignored.
SliceAll(s, limit) == s

\* Array.prototype.slice(0, limit)
Slice(s, limit) ==
    LET end == IF limit < 0 THEN Len(s) + limit ELSE limit
    IN  SubSeq(s, 1, IF end > Len(s) THEN Len(s) ELSE end)

\* getTopHelpTopics(limit)
getTopHelpTopics(limit) ==
    LET helpMessages == SelectSeq(messages, HasHelpTopic)
        keys    == [i \in 1..Len(helpMessages) |-> normalizeHelpTopic(helpMessages[i].helpTopic)]
        topics  == FirstSeen(keys)
        entries == [i \in 1..Len(topics) |->
                       [topic |-> topics[i], count |-> Occurrences(keys, topics[i])]]
        counts  == [i \in 1..Len(entries) |-> entries[i].count]
    IN  Slice(SortByCountDesc(entries, counts), limit)

\* A deliberately wrong variant of Enough: exactly minReplies is not enough.
MoreThan(count, minReplies) == count > minReplies

\* .filter(([_, data]) => data.count >= minReplies)
Enough(count, minReplies) == count >= minReplies

DefaultMinReplies == 5   \* minReplies: number = 5
DefaultLimit == 5        \* limit: number = 5

\* getTopThreads(minReplies, limit)
getTopThreads(minReplies, limit) ==
    LET threadMessages == SelectSeq(messages, HasThread)
        keys    == [i \in 1..Len(threadMessages) |-> threadMessages[i].threadId]
        ids     == FirstSeen(keys)
        NameOf(id) ==
            threadMessages[CHOOSE i \in 1..Len(keys) :
                              keys[i] = id /\ \A j \in 1..(i - 1) : keys[j] # id].threadName
        all     == [i \in 1..Len(ids) |->
                       [threadId |-> ids[i], threadName |-> NameOf(ids[i]),
                        replyCount |-> Occurrences(keys, ids[i])]]
        EnoughReplies(e) == Enough(e.replyCount, minReplies)
        entries == SelectSeq(all, EnoughReplies)
        counts  == [i \in 1..Len(entries) |-> entries[i].replyCount]
    IN  Slice(SortByCountDesc(entries, counts), limit)

\* getTopHelpTopics(limit) is called
TopHelpTopicsCall(limit) ==
    /\ ret = NoCall
    /\ ret' = [fn |-> "getTopHelpTopics", limit |-> limit, value |-> getTopHelpTopics(limit)]
    /\ UNCHANGED <<ledgerVars, conversations, now, timerVars, diskVars, wfVars, startup, arg, processedSlackMessages, hist>>

\* getTopThreads(minReplies, limit) is called
TopThreadsCall(minReplies, limit) ==
    /\ ret = NoCall
    /\ ret' = [fn |-> "getTopThreads", minReplies |-> minReplies, limit |-> limit,
               value |-> getTopThreads(minReplies, limit)]
    /\ UNCHANGED <<ledgerVars, conversations, now, timerVars, diskVars, wfVars, startup, arg, processedSlackMessages, hist>>

----------------------------------------------------------------------------
(* src/analytics.ts: classifyMessage. The reply of the classification       *)
(* service is a text, or one of the ways the call can go wrong.              *)

\* const validTopics: Topic[], each label with its characters
validTopics == <<
    [text |-> <<"s", "u", "p", "p", "o", "r", "t", "-", "r", "e", "q", "u", "e", "s", "t">>, label |-> "support-request"],
    [text |-> <<"f", "e", "a", "t", "u", "r", "e", "-", "r", "e", "q", "u", "e", "s", "t">>, label |-> "feature-request"],
    [text |-> <<"b", "u", "g", "-", "r", "e", "p", "o", "r", "t">>, label |-> "bug-report"],
    [text |-> <<"g", "e", "n", "e", "r", "a", "l", "-", "d", "i", "s", "c", "u", "s", "s", "i", "o", "n">>, label |-> "general-discussion"],
    [text |-> <<"p", "r", "a", "i", "s", "e">>, label |-> "praise"],
    [text |-> <<"q", "u", "e", "s", "t", "i", "o", "n">>, label |-> "question"]>>

RAISED == "raised"            \* an exception leaving a block
NotATopic == "not-a-topic"    \* a string that is none of the labels

Unreachable == [kind |-> "unreachable", response |-> << >>]   \* fetch rejects
NoResponse  == [kind |-> "no-response", response |-> << >>]   \* data.response is undefined
TextReply(response) == [kind |-> "text", response |-> response]

\* Replies that throw inside the try block: fetch rejects, response.json()
\* rejects, the body is null, data.response has no trim()
FailingReplies ==
    {Unreachable,
     [kind |-> "not-json",     response |-> << >>],
     [kind |-> "null",         response |-> << >>],
     [kind |-> "not-a-string", response |-> << >>]}

\* validTopics.includes(result)
IsValidTopic(result) == \E k \in 1..Len(validTopics) : validTopics[k].text = result

\* result as Topic: the string, named by its label when it is one
AsTopic(result) ==
    IF IsValidTopic(result)
    THEN validTopics[CHOOSE k \in 1..Len(validTopics) : validTopics[k].text = result].label
    ELSE NotATopic

\* A deliberately wrong variant of Validated: the result is returned unchecked.
Unvalidated(result) == AsTopic(result)

\* if (validTopics.includes(result)) return result; ... return 'general-discussion'
Validated(result) ==
    IF IsValidTopic(result) THEN AsTopic(result) ELSE "general-discussion"

\* The body of the try block of classifyMessage
ClassifyBody(reply) ==
    IF reply \in FailingReplies THEN RAISED
    ELSE IF reply = NoResponse THEN "general-discussion"
    ELSE Validated(ToLowerCase(Trim(reply.response)))

\* A deliberately wrong variant of classifyMessage: nothing is caught.
ClassifyUncaught(reply) == ClassifyBody(reply)

\* classifyMessage(content): try { ... } catch { return 'general-discussion' }
classifyMessage(reply) ==
    IF ClassifyBody(reply) = RAISED THEN "general-discussion" ELSE ClassifyBody(reply)

\* Replies of the service, as pieces that are put together
ReplyFragments ==
    {<<"p", "r", "a", "i", "s", "e">>,
     <<"P", "R", "A", "I", "S", "E">>,
     <<"B", "u", "g", "-", "R", "e", "p", "o", "r", "t">>,
     <<"q", "u", "e", "s", "t", "i", "o", "n">>,
     <<" ">>,
     <<"\n">>,
     <<".">>}

ServiceReplies ==
    {TextReply(r) : r \in Concats(ReplyFragments, MaxParts)}
        \cup FailingReplies \cup {NoResponse}

\* classifyMessage is called and the service replies with arg
ClassifyCall ==
    /\ ret = NoCall
    /\ ret' = [fn |-> "classifyMessage", value |-> classifyMessage(arg)]
    /\ UNCHANGED <<ledgerVars, conversations, now, timerVars, diskVars, wfVars, startup, arg, processedSlackMessages, hist>>

\* The replies used where messages are recorded
TopicReplies ==
    {TextReply(<<" ", "P", "r", "a", "i", "s", "e", "\n">>), TextReply(<<"b", "u", "g">>), Unreachable, NoResponse}

\* The handler of MessageCreate gets the topic from classifyMessage
ClassifyMessageReturn(i, reply) == ClassifyReturn(i, classifyMessage(reply))

----------------------------------------------------------------------------
(* Initial state: the module's top-level declarations, nothing loaded. *)

----------------------------------------------------------------------------
(* answerAnalyticsQuestion(question, userId): the question and the answer as
   turns of the user's conversation. Texts are sequences of characters; the
   two fixed messages are kept in one piece, as nothing takes them apart.    *)

COULD_NOT_GENERATE == <<"I couldn't generate a response. Try again later.">>
TROUBLE_CONNECTING == <<"Sorry, I'm having trouble connecting to the AI. Please try again later.">>

Questions == {<<"t", "o", "p", "?">>, <<"w", "h", "y", "?">>}

AnswerReplies ==
    {TextReply(<<"4", "2">>), TextReply(<<" ", "4", "2", "\n">>), TextReply(<<" ">>),
     NoResponse} \cup FailingReplies

AskCalls == [question : Questions, userId : Users \cup {UNDEFINED}]

\* data.response?.trim() || "I couldn't generate a response. Try again later."
AnswerOf(reply) ==
    IF reply = NoResponse \/ Trim(reply.response) = << >>
    THEN COULD_NOT_GENERATE
    ELSE Trim(reply.response)

\* answerAnalyticsQuestion up to `await fetch(...)`: the question is stored first
AskStart ==
    /\ ret = NoCall
    /\ IF arg.userId # UNDEFINED
       THEN addToConversation(arg.userId, "user", arg.question)
       ELSE UNCHANGED <<ledgerVars, conversations, now, timerVars, diskVars, hist, wfVars, startup>>
    /\ ret' = [fn |-> "answerAnalyticsQuestion", pc |-> "fetch", value |-> << >>]
    /\ arg' = arg
    /\ UNCHANGED processedSlackMessages

\* The service replies: the try block stores and returns the answer, the catch
\* block logs and returns its apology
AskReturn(reply) ==
    /\ ret.fn = "answerAnalyticsQuestion"
    /\ ret.pc = "fetch"
    /\ arg' = arg
    /\ UNCHANGED processedSlackMessages
    /\ IF reply \in FailingReplies
       THEN /\ ret' = [ret EXCEPT !.pc = "done", !.value = TROUBLE_CONNECTING]
            /\ UNCHANGED <<ledgerVars, conversations, now, timerVars, diskVars, hist, wfVars, startup>>
       ELSE /\ ret' = [ret EXCEPT !.pc = "done", !.value = AnswerOf(reply)]
            /\ IF arg.userId # UNDEFINED
               THEN addToConversation(arg.userId, "assistant", AnswerOf(reply))
               ELSE UNCHANGED <<ledgerVars, conversations, now, timerVars, diskVars, hist, wfVars, startup>>

----------------------------------------------------------------------------
(* extractHelpTopic(content): the reply of the service as a help topic.      *)

\* The body of the try block of extractHelpTopic; <<RAISED>> stands for an
\* exception leaving it
ExtractBody(reply) ==
    IF reply \in FailingReplies THEN <<RAISED>>
    ELSE IF reply = NoResponse THEN T_general_help
    ELSE ExtractedTopic(reply.response)

\* extractHelpTopic(content): try { ... } catch { return 'general help' }
extractHelpTopic(reply) ==
    IF ExtractBody(reply) = <<RAISED>> THEN T_general_help ELSE ExtractBody(reply)

\* Replies of the service to the help-topic prompt
ExtractReplies ==
    {TextReply(r) : r \in Concats(HelpReplies \cup {<<" ">>, <<"\n">>}, MaxParts)}
        \cup FailingReplies \cup {NoResponse}

\* extractHelpTopic is called and the service replies with arg
ExtractCall ==
    /\ ret = NoCall
    /\ ret' = [fn |-> "extractHelpTopic", value |-> extractHelpTopic(arg)]
    /\ UNCHANGED <<ledgerVars, conversations, now, timerVars, diskVars, wfVars, startup, arg, processedSlackMessages, hist>>

----------------------------------------------------------------------------
(* The topic lines of the summary reports (formatDailySummaryForSlack,
   formatCombinedReportForSlack).                                            *)

\* The keys of the object getTotalCounts() builds, in the order they are written
TopicOrder == <<"support-request", "feature-request", "bug-report",
                "general-discussion", "praise", "question">>

\* The keys of summary[channel]: the Map of the channel is walked in insertion
\* order, and recordMessage inserts a topic with the first message that has it
ChannelKeys(channel) ==
    LET topics == [i \in 1..Len(messages) |-> messages[i].topic]
        inChannel == SelectSeq([i \in 1..Len(messages) |-> messages[i]],
                               LAMBDA m : m.channel = channel)
    IN  FirstSeen([i \in 1..Len(inChannel) |-> inChannel[i].topic])

\* keys.filter(topic => counts[topic] > 0).sort((a, b) => counts[b] - counts[a])
DisplayOrder(keys, counts) ==
    LET shown == SelectSeq(keys, LAMBDA t : counts[t] > 0)
    IN  SortByCountDesc(shown, [i \in 1..Len(shown) |-> counts[shown[i]]])

\* totalLines / summaryLines: the topics of the overall breakdown
totalLines == DisplayOrder(TopicOrder, getTotalCounts)

\* channelLines: the topics of one channel of the per-channel breakdown
channelLines(channel) == DisplayOrder(ChannelKeys(channel), getTopicSummary[channel])

\* formatDailySummaryForSlack(): the per-channel breakdown is there when more
\* than one channel has messages
DailySummaryCall ==
    /\ ret = NoCall
    /\ ret' = [fn |-> "formatDailySummaryForSlack",
               totalLines |-> totalLines,
               channelLines |-> IF Cardinality(DOMAIN getTopicSummary) > 1
                                THEN [c \in DOMAIN getTopicSummary |-> channelLines(c)]
                                ELSE << >>]
    /\ UNCHANGED <<ledgerVars, conversations, now, timerVars, diskVars, wfVars, startup, arg, processedSlackMessages, hist>>

----------------------------------------------------------------------------
(* discordClient.on(Events.MessageCreate): the guards before either branch. *)

\* getChannels(): name, channel id from the environment ("" when the variable
\* is not set, as for "random" here), handling mode, enabled
Channels ==
    << [name |-> "intros",  channelId |-> "C_INTROS",  responseType |-> "welcome",        enabled |-> TRUE],
       [name |-> "random",  channelId |-> "",          responseType |-> "analytics-only", enabled |-> TRUE],
       [name |-> "general", channelId |-> "C_GENERAL", responseType |-> "analytics-only", enabled |-> TRUE],
       [name |-> "help",    channelId |-> "C_HELP",    responseType |-> "analytics-only", enabled |-> TRUE] >>

\* process.env.DISCORD_GUILD_ID
DISCORD_GUILD_ID == "G1"

\* message.channelId and message.guildId of the events
ChannelIds == {"C_INTROS", "C_RANDOM", "C_GENERAL", "C_HELP"}
GuildIds   == {"G1", "G2"}

\* What find() gives when no element passes: undefined
NoChannel == [name |-> UNDEFINED, channelId |-> "", responseType |-> UNDEFINED, enabled |-> FALSE]

\* getChannels().find(ch => ch.enabled && ch.channelId && ch.channelId === channelId)
getChannelConfig(channelId) ==
    LET hits == {i \in 1..Len(Channels) : /\ Channels[i].enabled
                                          /\ Channels[i].channelId # ""
                                          /\ Channels[i].channelId = channelId}
    IN  IF hits = {} THEN NoChannel
        ELSE Channels[CHOOSE i \in hits : \A j \in hits : i <= j]

\* A deliberately wrong variant of Ignored: the guild of the message is not looked at.
IgnoredWithoutGuild(message) ==
    \/ message.bot
    \/ getChannelConfig(message.channelId) = NoChannel

\* The three early returns of the handler
Ignored(message) ==
    \/ message.bot
    \/ getChannelConfig(message.channelId) = NoChannel
    \/ message.guildId # DISCORD_GUILD_ID

NoEvent == [n |-> 0, bot |-> FALSE, channelId |-> "C_GENERAL", guildId |-> "G1", id |-> "m1"]

\* A deliberately wrong variant of DiscordMessageCreate: every accepted message
\* takes the welcome flow, whatever the handling mode of its channel.
DiscordMessageAllWelcome(message) ==
    /\ arg.n < MaxDeliveries
    /\ arg' = [message EXCEPT !.n = arg.n + 1]
    /\ ret' = ret
    /\ UNCHANGED processedSlackMessages
    /\ IF Ignored(message)
       THEN UNCHANGED <<ledgerVars, conversations, now, timerVars, diskVars, wfVars, startup, hist>>
       ELSE welcome(message.id)

\* The handler from the event to its first await, or to its early return
DiscordMessageCreate(message) ==
    /\ arg.n < MaxDeliveries
    /\ arg' = [message EXCEPT !.n = arg.n + 1]
    /\ ret' = ret
    /\ UNCHANGED processedSlackMessages
    /\ IF Ignored(message)
       THEN UNCHANGED <<ledgerVars, conversations, now, timerVars, diskVars, wfVars, startup, hist>>
       ELSE IF getChannelConfig(message.channelId).responseType = "analytics-only"
            THEN analyticsOnly(getChannelConfig(message.channelId).name)
            ELSE welcome(message.id)

\* getConversationHistory(userId) called: the filtered copy is returned, the
\* stored list is not assigned
GetConversationHistoryCall(userId) ==
    /\ ret' = [fn |-> "getConversationHistory", userId |-> userId, at |-> now,
               value |-> getConversationHistory(userId)]
    /\ UNCHANGED <<ledgerVars, conversations, now, timerVars, diskVars, wfVars, startup, arg, processedSlackMessages, hist>>

----------------------------------------------------------------------------
(* src/agent.ts: handleSlackMessage, the handler of Slack DMs and mentions. *)

W_forget == <<"f", "o", "r", "g", "e", "t">>
W_clear_history == <<"c", "l", "e", "a", "r", " ", "h", "i", "s", "t", "o", "r", "y">>
W_start_over == <<"s", "t", "a", "r", "t", " ", "o", "v", "e", "r">>
W_new_conversation == <<"n", "e", "w", " ", "c", "o", "n", "v", "e", "r", "s", "a", "t", "i", "o", "n">>
W_thread == <<"t", "h", "r", "e", "a", "d">>
W_top_help == <<"t", "o", "p", " ", "h", "e", "l", "p">>
W_active == <<"a", "c", "t", "i", "v", "e">>
W_popular == <<"p", "o", "p", "u", "l", "a", "r">>

\* The words of the first test (clear) and of the second (top threads)
ClearWords  == {W_forget, W_clear_history, W_start_over, W_new_conversation}
ThreadWords == {W_thread, W_top_help, W_active, W_popular}

\* slackBotUserId, and the mention of the bot as it stands in a text: <@B>
slackBotUserId == <<"B">>
BotMention == <<"<", "@">> \o slackBotUserId \o <<">">>

\* text.replace(new RegExp(pattern, 'g'), ''): every occurrence goes, left to right
RECURSIVE RemoveAll(_, _)
RemoveAll(s, pattern) ==
    IF Len(s) < Len(pattern) THEN s
    ELSE IF SubSeq(s, 1, Len(pattern)) = pattern
         THEN RemoveAll(SubSeq(s, Len(pattern) + 1, Len(s)), pattern)
         ELSE <<s[1]>> \o RemoveAll(Tail(s), pattern)

\* messageText: event.text without the mentions of the bot, trimmed
MessageText(event) == Trim(RemoveAll(event.text, BotMention))

\* The set keeps the last ids: beyond 100 entries the oldest 50 are deleted
PROCESSED_LIMIT == 100
PROCESSED_DROPPED == 50

\* processedSlackMessages.add(msgId) and the clean-up that follows it
Remember(processed, msgId) ==
    LET added == Append(processed, msgId)
    IN  IF Len(added) > PROCESSED_LIMIT
        THEN SubSeq(added, PROCESSED_DROPPED + 1, Len(added))
        ELSE added

\* A deliberately wrong variant of Has: no id is ever found.
HasNever(processed, msgId) == FALSE

\* processedSlackMessages.has(msgId)
Has(processed, msgId) == \E k \in 1..Len(processed) : processed[k] = msgId

\* A deliberately wrong order of the two tests: the top-threads words come first.
ThreadsFirst(lowerMessage) ==
    IF \E w \in ThreadWords : Includes(lowerMessage, w) THEN "top-threads"
    ELSE IF \E w \in ClearWords : Includes(lowerMessage, w) THEN "cleared"
    ELSE "combined"

\* The chain of tests on lowerMessage: which branch answers
Route(lowerMessage) ==
    IF \/ Includes(lowerMessage, W_forget)
       \/ Includes(lowerMessage, W_clear_history)
       \/ Includes(lowerMessage, W_start_over)
       \/ Includes(lowerMessage, W_new_conversation) THEN "cleared"
    ELSE IF \/ Includes(lowerMessage, W_thread)
            \/ Includes(lowerMessage, W_top_help)
            \/ Includes(lowerMessage, W_active)
            \/ Includes(lowerMessage, W_popular) THEN "top-threads"
    ELSE "combined"

\* What ret holds before any Slack message: nothing delivered, nothing sent
NoSlackMessage ==
    [fn |-> "handleSlackMessage", n |-> 0, msgId |-> 0, replies |-> << >>, seen |-> {}]

\* handleSlackMessage(event), up to its only await, the chat.postMessage of the
\* reply (a rejection of it is caught and logged by the caller). ret keeps what
\* this call posted, and the ids delivered so far.
handleSlackMessage(event) ==
    LET delivered == [ret EXCEPT !.n = @ + 1, !.msgId = event.msgId,
                                 !.seen = @ \cup {event.msgId}]
        silent == /\ ret' = [delivered EXCEPT !.replies = << >>]
                  /\ UNCHANGED <<ledgerVars, conversations, now, timerVars, diskVars,
                                 wfVars, startup, hist>>
    IN
    /\ arg' = arg
    /\ IF event.bot_id
       THEN silent /\ UNCHANGED processedSlackMessages
       ELSE IF Has(processedSlackMessages, event.msgId)
       THEN silent /\ UNCHANGED processedSlackMessages
       ELSE /\ processedSlackMessages' = Remember(processedSlackMessages, event.msgId)
            /\ IF MessageText(event) = << >>
               THEN silent
               ELSE LET branch == Route(ToLowerCase(MessageText(event)))
                    IN  /\ ret' = [delivered EXCEPT !.replies = <<branch>>]
                        /\ IF branch = "cleared"
                           THEN clearConversation(event.user)
                           ELSE UNCHANGED <<ledgerVars, conversations, now, timerVars,
                                            diskVars, wfVars, startup, hist>>

\* The texts of the Slack messages: words of both tests, in either case, a
\* plain word, a blank and a mention of the bot
TextFragments ==
    {<<"F", "o", "r", "g", "e", "t">>,
     <<"S", "T", "A", "R", "T", " ", "o", "v", "e", "r">>,
     <<"c", "l", "e", "a", "r", " ", "h", "i", "s", "t", "o", "r", "y">>,
     <<"n", "e", "w", " ", "c", "o", "n", "v", "e", "r", "s", "a", "t", "i", "o", "n">>,
     <<"T", "h", "r", "e", "a", "d", "s">>,
     <<"t", "o", "p", " ", "h", "e", "l", "p">>,
     <<"A", "c", "t", "i", "v", "e">>,
     <<"p", "o", "p", "u", "l", "a", "r">>,
     <<"s", "t", "a", "t", "s">>,
     <<" ">>,
     BotMention}

HistInit ==
    [lastCall      |-> [s \in Stores |-> {}],
     writesSince   |-> [s \in Stores |-> 0],
     burstWrites   |-> [s \in Stores |-> 0],
     lastWrite     |-> [s \in Stores |-> {}],
     oldestUnsaved |-> [s \in Stores |-> {}],
     burstCalls    |-> [s \in Stores |-> 0],
     calls         |-> [s \in Stores |-> 0],
     saved         |-> [s \in Stores |-> << >>],
     loads         |-> 0,
     convCalls     |-> 0,
     appended      |-> [u \in Users |-> {}],
     events        |-> 0,
     texts         |-> [id \in MsgIds |-> << >>],
     offered       |-> [id \in AllIds |-> IF id \in StaleIds THEN Buttons ELSE {}],
     modal         |-> StaleIds,
     outcomes      |-> {},
     approved      |-> {},
     skipped       |-> {}]

StateInit ==
    /\ messages = << >>
    /\ topicCounts = << >>
    /\ tasks = [i \in 1..MaxTasks |-> IdleTask]
    /\ conversations = << >>
    /\ now = 0
    /\ timers = [s \in Stores |-> {}]
    /\ saveTimeout = {}
    /\ convSaveTimeout = {}
    /\ dataFile = MissingFile
    /\ convFile = MissingFile
    /\ WorkflowInit
    /\ startup = Started
    /\ hist = HistInit

Init ==
    /\ StateInit
    /\ CallInit

----------------------------------------------------------------------------
(* SpecRecord: only recordMessage acts on the ledger, from concurrent handlers. *)

NextRecord ==
    \/ \E channel \in AnalyticsChannels : MessageCreate(channel)
    \/ \E i \in 1..MaxTasks, topic \in ClassifyAnswers : ClassifyReturn(i, topic)
    \/ \E i \in 1..MaxTasks, helpTopic \in HelpTopicAnswers : ExtractReturn(i, helpTopic)

SpecRecord == Init /\ [][NextRecord]_vars

----------------------------------------------------------------------------
(* SpecStore: every exported operation on the ledger, over the snapshots a     *)
(* previous run can have left on disk.                                         *)

\* Snapshots of a previous run (their timestamps lie before this run's start).
OldMessages == << [channel |-> "general", topic |-> "praise",
                   helpTopic |-> UNDEFINED, timestamp |-> 0 - 9000],
                  [channel |-> "help", topic |-> "question",
                   helpTopic |-> "vs code setup", timestamp |-> 0 - 8000] >>

OldConversations ==
    [u \in {"U1"} |-> << [role |-> "user", content |-> "q0", timestamp |-> 0 - 7000] >>]

DataFileStates == {MissingFile, CorruptFile, DataFileOf(<< >>), DataFileOf(OldMessages)}
ConvFileStates == {MissingFile, CorruptFile, ConvFileOf(OldConversations)}

InitStore ==
    /\ messages = << >>
    /\ topicCounts = << >>
    /\ tasks = [i \in 1..MaxTasks |-> IdleTask]
    /\ conversations = << >>
    /\ now = 0
    /\ timers = [s \in Stores |-> {}]
    /\ saveTimeout = {}
    /\ convSaveTimeout = {}
    /\ dataFile \in DataFileStates
    /\ convFile \in ConvFileStates
    /\ WorkflowInit
    /\ startup = Started
    /\ CallInit
    /\ hist = HistInit

\* Messages are recorded one at a time here, as the startup backfill does
\* (fetchHistoricalMessages awaits each recordMessage before the next).
NextStore ==
    \/ ActiveTasks = {} /\ hist.calls[LEDGER] < MaxMsgs /\ MessageCreate("general")
    \/ \E i \in 1..MaxTasks, topic \in ClassifyAnswers : ClassifyReturn(i, topic)
    \/ \E channel \in AnalyticsChannels, topic \in ClassifyAnswers : RecordTopic(channel, topic)
    \/ LoadPersistedData
    \/ ResetAnalytics

SpecStore == InitStore /\ [][NextStore]_vars

----------------------------------------------------------------------------
(* SpecConv: conversation memory over a span of more than a week. *)

NextConv ==
    \/ \E u \in Users, role \in {"user", "assistant"} : AddToConversation(u, role, "hello")
    \/ \E u \in Users : ClearConversation(u)
    \/ \E ok \in BOOLEAN : SaveConversationsFires(ok)
    \/ TickLong

SpecConv == Init /\ [][NextConv]_vars

----------------------------------------------------------------------------
(* SpecPersist: both stores are mutated while the clock runs, second by second. *)

TickSteps == {1000, 2000, 4000}

NextPersist ==
    \/ ActiveTasks = {} /\ hist.calls[LEDGER] < MaxSaveCalls /\ MessageCreate("general")
    \/ \E i \in 1..MaxTasks : ClassifyReturn(i, "praise")
    \/ hist.calls[CONV] < MaxSaveCalls /\ AddToConversation("U1", "user", "hello")
    \/ hist.calls[CONV] < MaxSaveCalls /\ ClearConversation("U1")
    \/ \E ok \in BOOLEAN : SaveDataFires(ok)
    \/ \E ok \in BOOLEAN : SaveConversationsFires(ok)
    \/ \E d \in TickSteps : Tick(d)

SpecPersist == Init /\ [][NextPersist]_vars

----------------------------------------------------------------------------
(* The approval workflow: welcome messages and Slack decision events.      *)

NextWorkflow ==
    \/ \E id \in MsgIds : WelcomeMessageCreate(id)
    \/ \E id \in MsgIds, aiResponse \in AiAnswers : GenerateReturn(id, aiResponse)
    \/ \E id \in MsgIds, ok \in BOOLEAN : NotifyReturn(id, ok)
    \/ \E kind \in Buttons \cup {SUBMIT}, id \in AllIds, text \in EditTexts \cup {""} :
          Interactive(kind, id, text)
    \/ \E i \in 1..MaxHandlers, ok \in BOOLEAN : AckReturn(i, ok)
    \/ \E i \in 1..MaxHandlers, ok \in BOOLEAN : SubmitUpdateReturn(i, ok)
    \/ \E i \in 1..MaxHandlers, ok \in BOOLEAN : ExpireReturn(i, ok)
    \/ \E i \in 1..MaxHandlers, ok \in BOOLEAN : StartThreadReturn(i, ok)
    \/ \E i \in 1..MaxHandlers, ok \in BOOLEAN : SendReturn(i, ok)
    \/ \E i \in 1..MaxHandlers, ok \in BOOLEAN : ApproveUpdateReturn(i, ok)
    \/ \E i \in 1..MaxHandlers, ok \in BOOLEAN : ModalReturn(i, ok)
    \/ \E i \in 1..MaxHandlers, ok \in BOOLEAN : SkipUpdateReturn(i, ok)

SpecWorkflow == Init /\ [][NextWorkflow]_vars

----------------------------------------------------------------------------
(* SpecNormalize: normalizeHelpTopic applied to a bounded set of phrases.  *)

InitNormalize ==
    /\ StateInit
    /\ arg \in Phrases
    /\ processedSlackMessages = << >>
    /\ ret = NoCall

SpecNormalize == InitNormalize /\ [][NormalizeCall]_vars

----------------------------------------------------------------------------
(* SpecRank: the ranked queries over every short log of mixed messages.    *)

RECURSIVE LogsUpTo(_, _)
LogsUpTo(kinds, n) ==
    IF n = 0 THEN {<< >>}
    ELSE LET shorter == LogsUpTo(kinds, n - 1)
         IN  shorter \cup {Append(s, m) : s \in shorter, m \in kinds}

LedgerInit(logs) ==
    /\ messages \in logs
    /\ topicCounts = << >>
    /\ tasks = [i \in 1..MaxTasks |-> IdleTask]
    /\ conversations = << >>
    /\ now = 0
    /\ timers = [s \in Stores |-> {}]
    /\ saveTimeout = {}
    /\ convSaveTimeout = {}
    /\ dataFile = MissingFile
    /\ convFile = MissingFile
    /\ WorkflowInit
    /\ startup = Started
    /\ CallInit
    /\ hist = HistInit

InitRank == LedgerInit(LogsUpTo(RankMessages, MaxRankLog))

NextRank ==
    \/ \E limit \in 0..MaxLimit : TopHelpTopicsCall(limit)
    \/ \E minReplies \in 1..2, limit \in 0..MaxLimit : TopThreadsCall(minReplies, limit)

SpecRank == InitRank /\ [][NextRank]_vars

----------------------------------------------------------------------------
(* SpecThreads: getTopThreads over longer logs of forum-thread messages.   *)

InitThreads == LedgerInit(LogsUpTo({InThread(ALPHA), InThread(BETA), PlainMessage}, MaxThreadLog))

NextThreads ==
    \E minReplies \in {1, DefaultMinReplies}, limit \in {1, DefaultLimit} :
        TopThreadsCall(minReplies, limit)

SpecThreads == InitThreads /\ [][NextThreads]_vars

----------------------------------------------------------------------------
(* SpecClassify: classifyMessage applied to a bounded set of replies.      *)

InitClassify ==
    /\ StateInit
    /\ arg \in ServiceReplies
    /\ processedSlackMessages = << >>
    /\ ret = NoCall

SpecClassify == InitClassify /\ [][ClassifyCall]_vars

----------------------------------------------------------------------------
(* SpecTopics: messages are classified, recorded, saved and loaded again.   *)

NextTopics ==
    \/ \E channel \in AnalyticsChannels :
          ActiveTasks = {} /\ hist.calls[LEDGER] < MaxMsgs /\ MessageCreate(channel)
    \/ \E i \in 1..MaxTasks, reply \in TopicReplies : ClassifyMessageReturn(i, reply)
    \/ \E i \in 1..MaxTasks : ExtractReturn(i, "general help")
    \/ SaveDataFires(TRUE)
    \/ \E d \in TickSteps : Tick(d)
    \/ LoadPersistedData

SpecTopics == Init /\ [][NextTopics]_vars

----------------------------------------------------------------------------
(* The ledger recomputed from the message log. *)

LogCount(channel, topic) ==
    Cardinality({i \in 1..Len(messages) :
                    messages[i].channel = channel /\ messages[i].topic = topic})

LogChannels == {messages[i].channel : i \in 1..Len(messages)}

LogTopics(channel) ==
    {messages[i].topic : i \in {j \in 1..Len(messages) : messages[j].channel = channel}}

FoldLog == [c \in LogChannels |-> [t \in LogTopics(c) |-> LogCount(c, t)]]

FoldTotals ==
    [t \in Topics |-> Cardinality({i \in 1..Len(messages) : messages[i].topic = t})]

\* C1: with only recordMessage acting, from handlers whose classification and
\* help-topic extraction overlap and complete in any order, in every state
\* another handler can observe getTopicSummary() is the per-channel, per-topic
\* count of the message log and getTotalCounts() is the per-topic count of the
\* whole log.
C1_SummaryIsFoldOfLog ==
    /\ getTopicSummary = FoldLog
    /\ getTotalCounts = FoldTotals

\* C1's case: while one handler is still suspended in extractHelpTopic, handlers
\* that started after it have recorded, twice under the same channel and topic.
C1_Witness ==
    /\ tasks[1].pc = "extract"
    /\ Len(messages) >= 2
    /\ \E t \in Topics : LogCount("general", t) = 2

\* C2: in every state reached by any mix of recordMessage, recordTopic,
\* loadPersistedData and resetAnalytics, the per-channel topic counters equal the
\* fold over the message log.
C2_CountersAreFoldOfLog == topicCounts = FoldLog

\* What loading two independent snapshots leaves in memory at startup.
LoadedIndependently ==
    /\ messages = IF dataFile.state = "valid" THEN ParseDates(dataFile.messages) ELSE << >>
    /\ topicCounts = FoldLog
    /\ conversations = IF convFile.state = "valid"
                       THEN [u \in DOMAIN convFile.conversations |->
                                ParseDates(convFile.conversations[u])]
                       ELSE << >>

\* C8: loadPersistedData at startup (nothing in memory yet) loads each store
\* from its own file when that file is valid and leaves it empty when the file is
\* missing or corrupt, whatever the state of the other file.
C8_SnapshotsLoadIndependently ==
    [][(/\ hist'.loads # hist.loads
        /\ messages = << >> /\ topicCounts = << >> /\ conversations = << >>)
       => LoadedIndependently']_vars

Range(seq) == {seq[i] : i \in 1..Len(seq)}

\* C7: a turn appended for a user at time T and not cleared since is in
\* getConversationHistory(user) at every time T' < T + 168 h and is not in it
\* at any time T' >= T + 168 h.
C7_TurnVisibleExactlyForAWeek ==
    \A u \in Users : \A turn \in hist.appended[u] :
        (turn \in Range(getConversationHistory(u)))
            <=> (now < turn.timestamp + 168 * 3600000)

\* C7's case: one turn has just expired (exactly 168 h old) while a younger
\* turn of the same user is still returned.
C7_Witness ==
    \E u \in Users : \E old, young \in hist.appended[u] :
        /\ now = old.timestamp + 168 * 3600000
        /\ old \notin Range(getConversationHistory(u))
        /\ young \in Range(getConversationHistory(u))

\* C9: per store, each scheduleSave call cancels the pending timer and arms a
\* new one (5 s ledger, 2 s conversations); calls that follow one another within
\* less than the quiet period cause exactly one write, one quiet period after
\* the last call, whatever happens to the other store.
C9_OneWriteAfterQuietPeriod ==
    \A s \in Stores :
        IF hist.lastCall[s] = {}
        THEN timers[s] = {} /\ hist.lastWrite[s] = {}
        ELSE \A c \in hist.lastCall[s] :
                LET due == c + (IF s = LEDGER THEN 5000 ELSE 2000) IN
                /\ hist.writesSince[s] <= 1
                /\ hist.burstWrites[s] = hist.writesSince[s]
                /\ hist.writesSince[s] = 1 => hist.lastWrite[s] = {due} /\ timers[s] = {}
                /\ hist.writesSince[s] = 0 => timers[s] = {due} /\ now <= due

\* C9's case: on both stores a burst of at least two calls closer than the quiet
\* period has been followed by its single write.
C9_Witness ==
    \A s \in Stores :
        /\ hist.burstCalls[s] >= 2
        /\ hist.burstWrites[s] = 1
        /\ hist.writesSince[s] = 1

\* C10: while a debounce timer is pending, every mutation of the store that is
\* not on disk yet is at most one quiet period old (so an exit now loses no
\* older mutation).
C10_UnsavedIsYoungerThanQuietPeriod ==
    \A s \in Stores :
        timers[s] # {} =>
            \A t \in hist.oldestUnsaved[s] : now - t <= (IF s = LEDGER THEN 5000 ELSE 2000)


----------------------------------------------------------------------------
(* The approval workflow (SpecWorkflow).                                    *)

PublishedFor(id) == {k \in 1..Len(published) : published[k].id = id}

\* C3: a decision event (approve, edit, skip or edit-submit) whose id has no
\* pending record never throws and is answered with "this request has
\* expired": every handler run that found no record ended "reported".
C3_NoRecordIsReportedExpired ==
    \A o \in hist.outcomes : ~o.found => o.result = "reported"

\* C4: approve on a pending record publishes the text the record holds when
\* the send is issued (the last edit-submitted text, else the draft), and
\* once that approve has ended no pending record for the id exists.
C4_ApprovePublishesStoredTextAndRemoves ==
    /\ \A k \in 1..Len(published) :
          /\ published[k].text = published[k].stored
          /\ published[k].target = published[k].id
    /\ \A o \in hist.outcomes :
          (o.kind = "approve" /\ o.result \in {"done", "published-only"})
              => o.id \notin DOMAIN pendingResponses

\* C5: Approved is terminal: whatever the interleaving of decision events,
\* the text of one id is published at most once.
C5_PublishedAtMostOnce ==
    \A id \in AllIds : Cardinality(PublishedFor(id)) <= 1

\* C6: Skipped is terminal and publishes nothing: no id has both a completed
\* skip and a publish.
C6_SkippedNeverPublished ==
    \A id \in hist.skipped : PublishedFor(id) = {}

----------------------------------------------------------------------------
(* The text functions (SpecNormalize).                                      *)

\* C11: normalizeHelpTopic is idempotent: normalizing the result of a call
\* once more gives the same result.
C11_NormalizeIsIdempotent ==
    ret.fn = "normalizeHelpTopic" => normalizeHelpTopic(ret.value) = ret.value

ContainsText(s, pattern) == Includes(ToLowerCase(s), pattern)

\* C12: every phrase containing "vs code" or "vscode" is mapped to
\* "vs code issue", every phrase containing "ssh" to "ssh issue", every phrase
\* containing "unknown issue" or "no main topic" to "general help".
C12_SubstringsGiveCanonicalTopics ==
    ret.fn = "normalizeHelpTopic" =>
        /\ (ContainsText(arg, <<"v","s"," ","c","o","d","e">>)
                \/ ContainsText(arg, <<"v","s","c","o","d","e">>))
              => ret.value = T_vs_code_issue
        /\ ContainsText(arg, <<"s","s","h">>) => ret.value = T_ssh_issue
        /\ (ContainsText(arg, <<"u","n","k","n","o","w","n"," ","i","s","s","u","e">>)
                \/ ContainsText(arg, <<"n","o"," ","m","a","i","n"," ","t","o","p","i","c">>))
              => ret.value = T_general_help

----------------------------------------------------------------------------
(* The ranked queries (SpecRank, SpecThreads).                              *)

HelpMessage(response) == ForumMessage("help", ExtractedTopic(response), UNDEFINED, UNDEFINED)

\* Scenario B: three phrasings of the same help topic, recorded under help
ScenarioB ==
    <<HelpMessage(<<"V", "S", " ", "C", "o", "d", "e", " ", "s", "e", "t", "u", "p">>),
      HelpMessage(<<"v", "s", "c", "o", "d", "e", " ", "i", "s", "s", "u", "e">>),
      HelpMessage(<<"V", "S", "C", "o", "d", "e", " ", "S", "e", "t", "u", "p">>)>>

HelpCount(topic) ==
    Cardinality({i \in 1..Len(messages) :
                    /\ messages[i].channel = "help"
                    /\ normalizeHelpTopic(messages[i].helpTopic) = topic})

\* C13: each entry of getTopHelpTopics counts the help-channel messages whose
\* helpTopic normalizes to the entry's topic, one entry per normalized topic;
\* "VS Code setup", "vscode issue" and "VSCode Setup" give [{vs code issue, 3}]
\* for limit 1.
C13_HelpTopicsGroupedByNormalizedTopic ==
    ret.fn = "getTopHelpTopics" =>
        /\ \A k \in 1..Len(ret.value) : ret.value[k].count = HelpCount(ret.value[k].topic)
        /\ \A k, l \in 1..Len(ret.value) : ret.value[k].topic = ret.value[l].topic => k = l
        /\ (messages = ScenarioB /\ ret.limit = 1)
              => ret.value = <<[topic |-> T_vs_code_issue, count |-> 3]>>

\* C13's case: scenario B has been recorded and the query was made with limit 1.
C13_Witness ==
    /\ ret.fn = "getTopHelpTopics"
    /\ messages = ScenarioB
    /\ ret.limit = 1
    /\ ret.value[1].count = 3

CountOf(entry) == IF ret.fn = "getTopHelpTopics" THEN entry.count ELSE entry.replyCount

IsRanking == ret.fn \in {"getTopHelpTopics", "getTopThreads"}

FirstIndex(entry) ==
    CHOOSE i \in 1..Len(messages) :
        LET Is(j) == IF ret.fn = "getTopHelpTopics"
                     THEN /\ messages[j].channel = "help"
                          /\ normalizeHelpTopic(messages[j].helpTopic) = entry.topic
                     ELSE messages[j].threadId = entry.threadId
        IN  Is(i) /\ \A j \in 1..(i - 1) : ~Is(j)

\* C15: in both rankings, items with equal counts appear in the order in which
\* their normalized topic, respectively thread id, first occurs in the log.
C15_TiesInFirstSeenOrder ==
    IsRanking =>
        \A k \in 1..(Len(ret.value) - 1) :
            CountOf(ret.value[k]) = CountOf(ret.value[k + 1])
                => FirstIndex(ret.value[k]) < FirstIndex(ret.value[k + 1])

\* C15's case: two threads with equal counts are both returned, Beta seen first.
C15_Witness ==
    /\ ret.fn = "getTopThreads"
    /\ Len(ret.value) = 2
    /\ ret.value[1].replyCount = ret.value[2].replyCount
    /\ ret.value[1].threadId = BETA.id
    /\ messages[1].threadId = BETA.id

ThreadCount(id) ==
    Cardinality({i \in 1..Len(messages) :
                    /\ messages[i].threadId = id
                    /\ messages[i].threadName \notin {UNDEFINED, ""}})

Qualifying(minReplies) == {t \in {ALPHA, BETA} : ThreadCount(t.id) >= minReplies}

\* C16: getTopThreads counts per threadId the messages that carry a threadId
\* and a threadName and returns only threads with count >= minReplies (all of
\* them, up to limit); with 6 messages in Alpha and 4 in Beta,
\* getTopThreads(5, 5) returns the single entry for Alpha with replyCount 6.
C16_ThreadsCountedAndFiltered ==
    ret.fn = "getTopThreads" =>
        /\ \A k \in 1..Len(ret.value) :
              /\ ret.value[k].replyCount = ThreadCount(ret.value[k].threadId)
              /\ ret.value[k].replyCount >= ret.minReplies
              /\ \E t \in Qualifying(ret.minReplies) :
                    t.id = ret.value[k].threadId /\ t.name = ret.value[k].threadName
        /\ \A k, l \in 1..Len(ret.value) :
              ret.value[k].threadId = ret.value[l].threadId => k = l
        /\ Len(ret.value) = IF Cardinality(Qualifying(ret.minReplies)) < ret.limit
                            THEN Cardinality(Qualifying(ret.minReplies)) ELSE ret.limit
        /\ (ThreadCount(ALPHA.id) = 6 /\ ThreadCount(BETA.id) = 4
                /\ ret.minReplies = 5 /\ ret.limit = 5)
              => ret.value = <<[threadId |-> ALPHA.id, threadName |-> ALPHA.name,
                                replyCount |-> 6]>>

\* C16's case: scenario C, six messages in Alpha and four in Beta, asked with (5, 5).
C16_Witness ==
    /\ ret.fn = "getTopThreads"
    /\ ret.minReplies = 5 /\ ret.limit = 5
    /\ ThreadCount(ALPHA.id) = 6 /\ ThreadCount(BETA.id) = 4
    /\ Len(ret.value) = 1

----------------------------------------------------------------------------
(* Classification (SpecClassify, SpecTopics).                               *)

CleanReply == ToLowerCase(Trim(arg.response))

\* C17: classifyMessage never raises and always returns one of the six
\* labels: the reply trimmed and lower-cased when that is a label, and
\* general-discussion when the reply is missing, malformed or no label, or
\* when the call fails.
C17_ClassifierAlwaysReturnsALabel ==
    ret.fn = "classifyMessage" =>
        /\ ret.value \in Topics
        /\ IF arg.kind = "text" /\ (\E k \in 1..6 : validTopics[k].text = CleanReply)
           THEN \E k \in 1..6 : validTopics[k].text = CleanReply
                                   /\ validTopics[k].label = ret.value
           ELSE ret.value = "general-discussion"

\* C17's case: the service could not be reached and the call has returned.
C17_Witness ==
    /\ ret.fn = "classifyMessage"
    /\ arg = Unreachable
    /\ ret.value = "general-discussion"

\* C18: every TrackedMessage of the ledger has one of the six labels as its
\* topic, also right after a snapshot has been loaded.
C18_TopicsAreLabels ==
    \A i \in 1..Len(messages) : messages[i].topic \in Topics

\* C18's case: a message whose classification failed was recorded, saved and
\* loaded back.
C18_Witness ==
    /\ hist.loads > 0
    /\ dataFile.state = "valid"
    /\ Len(messages) >= 2
    /\ messages = ParseDates(dataFile.messages)
    /\ \E i, j \in 1..Len(messages) :
          messages[i].topic = "praise" /\ messages[j].topic = "general-discussion"

----------------------------------------------------------------------------
(* Conversation memory (SpecConv), continued.                               *)

\* The stored turns of a user that are younger than 168 hours at a given time
RECURSIVE YoungerThanAWeek(_, _)
YoungerThanAWeek(history, time) ==
    IF history = << >> THEN << >>
    ELSE IF Head(history).timestamp > time - 168 * 3600000
         THEN <<Head(history)>> \o YoungerThanAWeek(Tail(history), time)
         ELSE YoungerThanAWeek(Tail(history), time)

\* A step that stores a history for the user: a call of addToConversation
AddStep(u) ==
    /\ u \in DOMAIN conversations'
    /\ u \in DOMAIN conversations => conversations'[u] # conversations[u]

\* C19: addToConversation first drops the user's turns older than 168 hours
\* and then appends the new turn: right after the call the stored list holds
\* no expired turn and ends with the new turn.
C19_AppendDropsExpiredTurnsFirst ==
    [][\A u \in Users :
          AddStep(u) =>
              LET stored == conversations'[u]
                  before == IF u \in DOMAIN conversations THEN conversations[u] ELSE << >>
              IN  /\ Len(stored) > 0
                  /\ stored[Len(stored)].timestamp = now'
                  /\ stored[Len(stored)] \in hist'.appended[u]
                  /\ SubSeq(stored, 1, Len(stored) - 1) = YoungerThanAWeek(before, now')
                  /\ \A k \in 1..Len(stored) : stored[k].timestamp > now' - 168 * 3600000]_vars

\* C19's case: a user with a turn older than a week has just got a new turn,
\* which is now the only one stored.
C19_Witness ==
    \E u \in Users :
        /\ u \in DOMAIN conversations
        /\ Len(conversations[u]) = 1
        /\ conversations[u][1].timestamp = now
        /\ \E old \in hist.appended[u] : old.timestamp <= now - 168 * 3600000

\* A step that is a call of clearConversation for a user with a history
ClearStep(u) ==
    /\ hist.appended[u] # {}
    /\ hist'.appended = [hist.appended EXCEPT ![u] = {}]
    /\ hist'.convCalls = hist.convCalls + 1

\* C20: clearConversation(userId) deletes that user's whole history at once:
\* right afterwards getConversationHistory(userId) is empty and the history
\* of every other user is unchanged.
C20_ClearRemovesOneUserOnly ==
    [][\A u \in Users :
          ClearStep(u) =>
              /\ u \notin DOMAIN conversations'
              /\ getConversationHistory(u)' = << >>
              /\ \A v \in Users \ {u} :
                    /\ v \in DOMAIN conversations' <=> v \in DOMAIN conversations
                    /\ v \in DOMAIN conversations => conversations'[v] = conversations[v]]_vars

\* C20's case: a user whose history had been saved has been cleared while
\* another user still has a history.
C20_Witness ==
    \E u, v \in Users :
        /\ u # v
        /\ u \notin DOMAIN conversations
        /\ hist.appended[u] = {}
        /\ convFile.state = "valid" /\ u \in DOMAIN convFile.conversations
        /\ v \in DOMAIN conversations /\ Len(conversations[v]) > 0

----------------------------------------------------------------------------
(* Failed snapshot writes (SpecPersist).                                    *)

WriteStep(s) == hist'.writesSince[s] = hist.writesSince[s] + 1

\* C21: a snapshot write that fails leaves the stores in memory (and the file)
\* as they were and arms no timer: a store is written only when a timer armed
\* by a scheduleSave call fires, one quiet period after that call.
C21_FailedWriteIsNotRetried ==
    [][\A s \in Stores :
          WriteStep(s) =>
              /\ now \in timers[s]
              /\ hist.lastCall[s] = {now - (IF s = LEDGER THEN 5000 ELSE 2000)}
              /\ hist'.oldestUnsaved[s] # {} =>
                    /\ UNCHANGED <<messages, topicCounts, conversations, dataFile, convFile>>
                    /\ timers'[s] = {}]_vars

\* C21's case: a write of the ledger failed, time has moved on and no timer
\* is pending for the ledger.
C21_Witness ==
    /\ hist.writesSince[LEDGER] = 1
    /\ hist.oldestUnsaved[LEDGER] # {}
    /\ timers[LEDGER] = {}
    /\ \A t \in hist.lastWrite[LEDGER] : now > t

----------------------------------------------------------------------------
(* Startup: files of any kind on disk, then main, the ready handler, the backfill
   and live messages. *)

InitStartup ==
    /\ messages = << >>
    /\ topicCounts = << >>
    /\ tasks = [i \in 1..MaxTasks |-> IdleTask]
    /\ conversations = << >>
    /\ now = 0
    /\ timers = [s \in Stores |-> {}]
    /\ saveTimeout = {}
    /\ convSaveTimeout = {}
    /\ dataFile \in DataFileStates
    /\ convFile \in ConvFileStates
    /\ WorkflowInit
    /\ startup = Booting
    /\ CallInit
    /\ hist = HistInit

NextStartup ==
    \/ Main
    \/ ClientReady
    \/ \E n \in 0..MaxBackfill : FetchReturn(n)
    \/ \E topic \in ClassifyAnswers : BackfillClassifyReturn("general", topic)
    \/ BackfillClassifyHangs
    \/ Connected /\ MessageCreate("general")
    \/ \E i \in 1..MaxTasks, topic \in ClassifyAnswers : ClassifyReturn(i, topic)

SpecStartup == InitStartup /\ [][NextStartup]_vars

\* What the ledger file on disk holds, as loadPersistedData reads it.
LoadedLedger == IF dataFile.state = "valid" THEN ParseDates(dataFile.messages) ELSE << >>

\* C22: the files are loaded before the connection to Discord is opened; the ready
\* handler runs the historical backfill exactly when the ledger holds no message,
\* and after a non-empty ledger was loaded no backfill message is ever recorded.
C22_BackfillOnlyWithoutPersistedData ==
    /\ startup.pc # "main" => hist.loads = 1
    /\ startup.pc = "login" => messages = LoadedLedger
    /\ Connected => (startup.backfill <=> LoadedLedger = << >>)
    /\ LoadedLedger # << >> => /\ startup.fetched = 0
                               /\ startup.pc \notin {"fetch", "classify", "hung"}

C22_Witness ==
    /\ startup.pc = "live"
    /\ LoadedLedger # << >>
    /\ ~startup.backfill
    /\ Len(messages) > Len(LoadedLedger)

----------------------------------------------------------------------------
(* SpecRestart: the stores are mutated and saved while the clock runs, and the
   process is stopped and started again. *)

NextRestart ==
    \/ Connected /\ ActiveTasks = {} /\ hist.calls[LEDGER] < MaxSaveCalls /\ MessageCreate("general")
    \/ \E i \in 1..MaxTasks, topic \in {"praise", "bug-report"} : ClassifyReturn(i, topic)
    \/ \E userId \in {"U1", "U2"} :
          startup.pc = "live" /\ hist.calls[CONV] < MaxSaveCalls /\ AddToConversation(userId, "user", "hello")
    \/ \E ok \in BOOLEAN : SaveDataFires(ok)
    \/ \E ok \in BOOLEAN : SaveConversationsFires(ok)
    \/ \E d \in TickSteps : Tick(d)
    \/ Restart
    \/ Main
    \/ ClientReady
    \/ FetchReturn(0)

SpecRestart == Init /\ [][NextRestart]_vars

----------------------------------------------------------------------------
(* SpecWorkflowRestart: the approval workflow of a process that is stopped and
   started again while notifications of its welcome messages are still open. *)

NextWorkflowRestart ==
    \/ Connected /\ WelcomeMessageCreate("m1")
    \/ \E aiResponse \in AiAnswers : GenerateReturn("m1", aiResponse)
    \/ \E ok \in BOOLEAN : NotifyReturn("m1", ok)
    \/ \E kind \in Buttons \cup {SUBMIT}, text \in EditTexts \cup {""} :
          Connected /\ Interactive(kind, "m1", text)
    \/ \E i \in 1..MaxHandlers, ok \in BOOLEAN : AckReturn(i, ok)
    \/ \E i \in 1..MaxHandlers, ok \in BOOLEAN : SubmitUpdateReturn(i, ok)
    \/ \E i \in 1..MaxHandlers, ok \in BOOLEAN : ExpireReturn(i, ok)
    \/ \E i \in 1..MaxHandlers, ok \in BOOLEAN : StartThreadReturn(i, ok)
    \/ \E i \in 1..MaxHandlers, ok \in BOOLEAN : SendReturn(i, ok)
    \/ \E i \in 1..MaxHandlers, ok \in BOOLEAN : ApproveUpdateReturn(i, ok)
    \/ \E i \in 1..MaxHandlers, ok \in BOOLEAN : ModalReturn(i, ok)
    \/ \E i \in 1..MaxHandlers, ok \in BOOLEAN : SkipUpdateReturn(i, ok)
    \/ Restart
    \/ Main
    \/ ClientReady
    \/ FetchReturn(0)

SpecWorkflowRestart == Init /\ [][NextWorkflowRestart]_vars

\* C24: pending responses do not survive a restart: the fresh process holds no
\* pending record for an id created before it started, and every decision event
\* for such an id finds no record and ends on the expired path, that is, it is
\* answered with "this request has expired" (unless the acknowledgement or the
\* notice itself is refused by Slack).
C24_StaleDecisionsTakeExpiredPath ==
    /\ startup.pc \in {"main", "login"} => DOMAIN pendingResponses = {}
    /\ \A id \in DOMAIN pendingResponses : id \in MsgIds /\ intros[id] # "gone"
    /\ \A o \in hist.outcomes : o.stale => ~o.found /\ o.result \in {"reported", "threw"}

SubmitOutcome(i, result) ==
    [kind |-> SUBMIT, id |-> handlers[i].id, found |-> TRUE, stale |-> FALSE, result |-> result]

\* C25: an edit-submit that finds a pending record stores its text in the record
\* and leaves the record pending; when its update of the notification is
\* accepted, the notification shows that text and offers Approve, Edit and Skip
\* again, so that a further edit-submit can overwrite the text in the same way.
C25_EditSubmitOverwritesAndReoffers ==
    [][\A i \in 1..MaxHandlers :
          LET h == handlers[i] IN
          /\ (h.kind = SUBMIT /\ h.pc = "ack" /\ handlers'[i].pc = "submit_update") =>
                /\ h.id \in DOMAIN pendingResponses
                /\ pendingResponses' = pendingResponses
                /\ heap'[pendingResponses[h.id]].suggestedResponse = h.text
          /\ (h.kind = SUBMIT /\ h.pc = "ack" /\ handlers'[i].pc = "idle") =>
                \/ h.id \notin DOMAIN pendingResponses
                \/ SubmitOutcome(i, "threw") \in hist'.outcomes
          /\ (h.pc = "submit_update" /\ handlers'[i].pc = "idle") =>
                /\ pendingResponses' = pendingResponses
                /\ heap' = heap
                /\ \/ /\ notif'[h.id] = [shows |-> "ready", text |-> h.text]
                      /\ hist'.offered[h.id] = Buttons
                   \/ /\ notif' = notif
                      /\ SubmitOutcome(i, "threw") \in hist'.outcomes]_vars

C25_Witness ==
    /\ hist.texts["m1"] = <<"Hi!", "Welcome!", "Hello there!">>
    /\ "m1" \in DOMAIN pendingResponses
    /\ heap[pendingResponses["m1"]].suggestedResponse = "Hello there!"
    /\ notif["m1"] = [shows |-> "ready", text |-> "Hello there!"]
    /\ hist.offered["m1"] = Buttons
    /\ \A i \in 1..MaxHandlers : handlers[i].pc = "idle"

----------------------------------------------------------------------------
(* SpecRedelivery: the approval workflow when a welcome message is delivered
   more than once. *)

NextRedelivery ==
    \/ \E id \in MsgIds : Len(heap) < MaxRecords /\ WelcomeMessageCreate(id)
    \/ MessageCreateAgain("m1")
    \/ \E id \in MsgIds, aiResponse \in AiAnswers : GenerateReturn(id, aiResponse)
    \/ \E id \in MsgIds, ok \in BOOLEAN : NotifyReturn(id, ok)
    \/ \E kind \in Buttons \cup {SUBMIT}, text \in EditTexts \cup {""} :
          hist.events < MaxEvents - 1 /\ Interactive(kind, "m1", text)
    \/ \E i \in 1..MaxHandlers, ok \in BOOLEAN : AckReturn(i, ok)
    \/ \E i \in 1..MaxHandlers, ok \in BOOLEAN : SubmitUpdateReturn(i, ok)
    \/ \E i \in 1..MaxHandlers, ok \in BOOLEAN : ExpireReturn(i, ok)
    \/ \E i \in 1..MaxHandlers, ok \in BOOLEAN : StartThreadReturn(i, ok)
    \/ \E i \in 1..MaxHandlers, ok \in BOOLEAN : SendReturn(i, ok)
    \/ \E i \in 1..MaxHandlers, ok \in BOOLEAN : ApproveUpdateReturn(i, ok)
    \/ \E i \in 1..MaxHandlers, ok \in BOOLEAN : ModalReturn(i, ok)
    \/ \E i \in 1..MaxHandlers, ok \in BOOLEAN : SkipUpdateReturn(i, ok)

SpecRedelivery == Init /\ [][NextRedelivery]_vars

\* The pending objects the map holds for a message id.
PendingRecords(id) ==
    {obj \in 1..Len(heap) :
        /\ heap[obj].messageId = id
        /\ \E k \in DOMAIN pendingResponses : pendingResponses[k] = obj}

\* C26: the map never holds more than one pending object for a message id, and a
\* create for an id that already has a record puts the new object in the place
\* of the old one and leaves the records of the other ids alone.
C26_OneRecordPerMessage ==
    [][/\ \A id \in AllIds : Cardinality(PendingRecords(id)') <= 1
       /\ \A id \in MsgIds :
             (intros[id] = "generate" /\ intros'[id] = "notify") =>
                /\ PendingRecords(id)' = {Len(heap')}
                /\ Len(heap') = Len(heap) + 1
                /\ \A other \in AllIds \ {id} : PendingRecords(other)' = PendingRecords(other)]_vars

C26_Witness ==
    /\ Len(heap) = 2
    /\ heap[1].messageId = "m1"
    /\ heap[2].messageId = "m1"
    /\ heap[1].suggestedResponse # heap[2].suggestedResponse
    /\ PendingRecords("m1") = {2}
    /\ hist.approved = {}
    /\ hist.skipped = {}

\* Startup where every step that can be taken is taken in the end: calls that are
\* going to settle do settle, and handlers that can run do run.
SpecStartupFair == SpecStartup /\ WF_vars(NextStartup)

\* C27: a classification call that never returns holds back its own message only:
\* once a call of the backfill hangs, every other fetched message is recorded in
\* the end (only the message of the hung call is left over).
C27_HungCallDelaysOnlyItsOwnMessage ==
    (startup.pc = "hung") ~> (startup.todo <= 1)

\* C28: no error raised while an inbound event is processed escapes its handler:
\* every run of the decision handler, whatever the external calls answer, ends
\* in a handled outcome and never by throwing.
C28_NoErrorEscapesDecisionHandler ==
    \A o \in hist.outcomes : o.result # "threw"

----------------------------------------------------------------------------
(* SpecAsk: one call of answerAnalyticsQuestion, while other turns are added
   to the conversations and the clock runs. *)

InitAsk ==
    /\ StateInit
    /\ arg \in AskCalls
    /\ processedSlackMessages = << >>
    /\ ret = NoCall

NextAsk ==
    \/ AskStart
    \/ \E reply \in AnswerReplies : AskReturn(reply)
    \/ \E userId \in Users : AddToConversation(userId, "user", <<"h", "i">>)
    \/ \E d \in TickSteps : Tick(d)
    \/ \E ok \in BOOLEAN : SaveConversationsFires(ok)

SpecAsk == InitAsk /\ [][NextAsk]_vars

\* C29: when a call of answerAnalyticsQuestion with a user id completes, the
\* user's history holds the question as a user turn and, after it, the returned
\* answer as an assistant turn.
C29_QuestionAndAnswerAreInHistory ==
    [][(ret.fn = "answerAnalyticsQuestion" /\ ret.pc = "fetch" /\ ret'.pc = "done"
            /\ arg.userId # UNDEFINED) =>
          LET turns == conversations'[arg.userId] IN
          /\ arg.userId \in DOMAIN conversations'
          /\ \E i, j \in DOMAIN turns :
                /\ i < j
                /\ turns[i].role = "user"
                /\ turns[i].content = arg.question
                /\ turns[j].role = "assistant"
                /\ turns[j].content = ret'.value]_vars

Matches(k) == Includes(Cleaned(arg), mappings[k][1])

\* C30: the result of normalizeHelpTopic is the canonical label of the first entry
\* of the mapping table, in table order, whose pattern occurs in the cleaned-up
\* topic, and the cleaned-up topic itself when no pattern occurs in it.
C30_FirstMatchInTableOrder ==
    ret.fn = "normalizeHelpTopic" =>
        /\ \A k \in 1..Len(mappings) :
              (Matches(k) /\ \A j \in 1..(k - 1) : ~Matches(j)) => ret.value = mappings[k][2]
        /\ (\A k \in 1..Len(mappings) : ~Matches(k)) => ret.value = Cleaned(arg)

C30_Witness ==
    /\ ret.fn = "normalizeHelpTopic"
    /\ \E j, k \in 1..Len(mappings) :
          /\ j < k
          /\ Matches(j)
          /\ Matches(k)
          /\ mappings[j][2] # mappings[k][2]
          /\ ret.value = mappings[j][2]

----------------------------------------------------------------------------
(* SpecExtract: extractHelpTopic applied to a bounded set of replies.       *)

InitExtract ==
    /\ StateInit
    /\ arg \in ExtractReplies
    /\ processedSlackMessages = << >>
    /\ ret = NoCall

SpecExtract == InitExtract /\ [][ExtractCall]_vars

\* C31: extractHelpTopic never raises and never returns the empty string: its
\* result is the response of the service, trimmed and in lower case, and
\* "general help" when the call fails or the response is missing or blank.
C31_ExtractReturnsTopicOrFallback ==
    ret.fn = "extractHelpTopic" =>
        /\ ret.value # <<RAISED>>
        /\ ret.value # << >>
        /\ ret.value = IF arg.kind = "text" /\ Trim(arg.response) # << >>
                       THEN ToLowerCase(Trim(arg.response))
                       ELSE T_general_help

C31_Witness ==
    /\ ret.fn = "extractHelpTopic"
    /\ arg = TextReply(<<" ", "\n">>)
    /\ ret.value = T_general_help

----------------------------------------------------------------------------
(* SpecSummary: messages are recorded and the daily summary is formatted.   *)

NextSummary ==
    \/ \E channel \in AnalyticsChannels : ret = NoCall /\ MessageCreate(channel)
    \/ \E i \in 1..MaxTasks, topic \in ClassifyAnswers : ClassifyReturn(i, topic)
    \/ \E i \in 1..MaxTasks, helpTopic \in HelpTopicAnswers : ExtractReturn(i, helpTopic)
    \/ ActiveTasks = {} /\ DailySummaryCall

SpecSummary == Init /\ [][NextSummary]_vars

EnumIndex(topic) == CHOOSE k \in 1..Len(TopicOrder) : TopicOrder[k] = topic

\* The topics of a list come by descending count, equal counts in enumeration order.
ByCountThenEnum(lines, counts) ==
    \A i, j \in 1..Len(lines) :
        i < j => \/ counts[lines[i]] > counts[lines[j]]
                 \/ /\ counts[lines[i]] = counts[lines[j]]
                    /\ EnumIndex(lines[i]) < EnumIndex(lines[j])

\* C32: in the overall breakdown and in every line of the per-channel breakdown
\* of the summary, the topics come by descending count and topics with equal
\* counts come in enumeration order.
C32_DisplayByCountThenEnumeration ==
    ret.fn = "formatDailySummaryForSlack" =>
        /\ ByCountThenEnum(ret.totalLines, getTotalCounts)
        /\ \A c \in DOMAIN ret.channelLines :
              ByCountThenEnum(ret.channelLines[c], getTopicSummary[c])

----------------------------------------------------------------------------
(* SpecEvents: chat-platform message events of every kind, and the calls of
   both branches answering.                                                  *)

DiscordMessages ==
    [n : {0}, bot : BOOLEAN, channelId : ChannelIds, guildId : GuildIds, id : MsgIds]

InitEvents ==
    /\ StateInit
    /\ arg = NoEvent
    /\ processedSlackMessages = << >>
    /\ ret = NoCall

NextEvents ==
    \/ \E message \in DiscordMessages : DiscordMessageCreate(message)
    \/ \E i \in 1..MaxTasks, topic \in ClassifyAnswers : ClassifyReturn(i, topic)
    \/ \E i \in 1..MaxTasks, helpTopic \in HelpTopicAnswers : ExtractReturn(i, helpTopic)
    \/ \E id \in MsgIds, aiResponse \in AiAnswers : GenerateReturn(id, aiResponse)
    \/ \E id \in MsgIds, ok \in BOOLEAN : NotifyReturn(id, ok)

SpecEvents == InitEvents /\ [][NextEvents]_vars

EnabledChannelIds ==
    {Channels[i].channelId : i \in {k \in 1..Len(Channels) : Channels[k].enabled}} \ {""}

\* The event now in arg is one the handler has to leave alone.
NotForUs ==
    \/ arg.bot
    \/ arg.channelId \notin EnabledChannelIds
    \/ arg.guildId # DISCORD_GUILD_ID

\* C33: a message event of a bot author, of a channel id that is not the id of
\* an enabled configured channel, or of another guild changes nothing: ledger,
\* pending records, timers, files and notifications stay as they were.
C33_IgnoredEventChangesNothing ==
    [][(arg'.n # arg.n /\ NotForUs')
          => UNCHANGED <<ledgerVars, conversations, timerVars, diskVars, wfVars, hist>>]_vars

C33_Witness ==
    /\ arg.n > 0
    /\ ~arg.bot /\ arg.channelId = "C_RANDOM" /\ arg.guildId = DISCORD_GUILD_ID
    /\ Len(messages) > 0
    /\ DOMAIN pendingResponses # {}

\* The handling mode the configuration gives to the channel of the event in arg
HandlingMode ==
    LET k == CHOOSE i \in 1..Len(Channels) : Channels[i].channelId = arg.channelId
    IN  Channels[k].responseType

Accepted(mode) == ~NotForUs /\ HandlingMode = mode

\* C34: an accepted message of an analytics-only channel starts one
\* classification, is appended to the ledger exactly once, when its handler
\* completes, and leaves the pending map alone; an accepted message of the
\* welcome channel gets one pending record under its own id, stored while the
\* notification is not yet posted, and never changes the ledger.
C34_RoutingByHandlingMode ==
    [][/\ (arg'.n # arg.n /\ Accepted("analytics-only")') =>
              /\ Cardinality(ActiveTasks') = Cardinality(ActiveTasks) + 1
              /\ \E i \in DOMAIN tasks : tasks[i].pc = "idle" /\ tasks'[i].pc = "classify"
              /\ UNCHANGED <<messages, topicCounts, wfVars>>
       /\ (arg'.n # arg.n /\ Accepted("welcome")') =>
              /\ intros[arg'.id] = "none" /\ intros'[arg'.id] = "generate"
              /\ UNCHANGED <<ledgerVars, pendingResponses, heap, notif>>
       /\ \A i \in DOMAIN tasks :
              (tasks[i].pc # "idle" /\ tasks'[i].pc = "idle") =>
                  /\ Len(messages') = Len(messages) + 1
                  /\ SubSeq(messages', 1, Len(messages)) = messages
                  /\ messages'[Len(messages')].channel = tasks[i].channel
                  /\ UNCHANGED wfVars
       /\ (\A i \in DOMAIN tasks : tasks[i].pc = "idle" \/ tasks'[i].pc # "idle") =>
              UNCHANGED <<messages, topicCounts>>
       /\ \A id \in MsgIds :
              /\ (intros[id] = "generate" /\ intros'[id] = "notify") =>
                     /\ id \notin DOMAIN pendingResponses
                     /\ DOMAIN pendingResponses' = DOMAIN pendingResponses \cup {id}
                     /\ Len(heap') = Len(heap) + 1
                     /\ pendingResponses'[id] = Len(heap')
                     /\ heap'[Len(heap')].messageId = id
                     /\ notif[id].shows = "none" /\ notif' = notif
              /\ notif'[id] # notif[id] => id \in DOMAIN pendingResponses
       /\ intros' = intros => UNCHANGED <<pendingResponses, heap, notif>>
      ]_vars

C34_Witness ==
    /\ \E k \in 1..Len(messages) : messages[k].channel = "help"
    /\ "m1" \in DOMAIN pendingResponses
    /\ notif["m1"].shows = "new"
    /\ intros["m2"] = "generate"

----------------------------------------------------------------------------
(* SpecConvRead: conversation memory over more than a week, with reads. *)

NextConvRead ==
    \/ \E u \in Users, role \in {"user", "assistant"} : AddToConversation(u, role, "hello")
    \/ \E u \in Users : ClearConversation(u)
    \/ \E ok \in BOOLEAN : SaveConversationsFires(ok)
    \/ TickLong
    \/ \E u \in Users : GetConversationHistoryCall(u)

SpecConvRead == Init /\ [][NextConvRead]_vars

\* C35: once getConversationHistory(userId) has returned, the list stored for
\* that user holds no turn that is outside the retention window at the time
\* of the read.
C35_ReadPrunesStoredHistory ==
    (ret.fn = "getConversationHistory" /\ ret.at = now) =>
        \A turn \in Range(StoredHistory(ret.userId)) : Fresh(turn)

\* Handler i completes an approve or a skip of id in this step.
CompletesDecision(i, id) ==
    /\ handlers[i].id = id
    /\ \/ handlers[i].kind = "approve" /\ handlers[i].pc = "approve_update"
       \/ handlers[i].kind = "reject" /\ handlers[i].pc = "skip_update"
    /\ handlers'[i].pc = "idle"
    /\ [kind |-> handlers[i].kind, id |-> id, found |-> TRUE, stale |-> FALSE,
        result |-> "done"] \in hist'.outcomes
    /\ notif'[id].shows \in {"sent", "skipped"}

\* Handler i stores the text of an edit-submit in record k in this step.
StoresSubmittedText(i, k) ==
    /\ handlers[i].kind = SUBMIT /\ handlers[i].pc = "ack"
    /\ Get(handlers[i].id) = k
    /\ heap'[k].suggestedResponse = handlers[i].text

\* C36: an id leaves the pending map only in the step that completes an approve
\* or a skip of it, or at a restart of the process; the text of a record changes
\* only when an edit-submit stores the submitted text. So an edit, a failed
\* notification post and a failed thread creation or send leave the record and
\* its text where they were.
C36_RecordDestroyedOnlyByDecisionOrRestart ==
    [][\/ startup.pc = "live" /\ startup' = Booting
       \/ /\ \A id \in DOMAIN pendingResponses \ DOMAIN pendingResponses' :
                 \E i \in 1..MaxHandlers : CompletesDecision(i, id)
          /\ \A id \in DOMAIN pendingResponses \cap DOMAIN pendingResponses' :
                 pendingResponses'[id] = pendingResponses[id]
          /\ \A k \in 1..Len(heap) :
                 /\ k <= Len(heap')
                 /\ heap'[k].suggestedResponse # heap[k].suggestedResponse =>
                        \E i \in 1..MaxHandlers : StoresSubmittedText(i, k)
      ]_vars

\* A thread creation or send has failed and an edit has been made for m1, the
\* notification of m1 is as posted, and a later approve has found the record.
C36_Witness ==
    /\ [kind |-> "approve", id |-> "m1", found |-> TRUE, stale |-> FALSE,
        result |-> "failed"] \in hist.outcomes
    /\ "m1" \in hist.modal
    /\ "m1" \in DOMAIN pendingResponses
    /\ \E i \in 1..MaxHandlers :
          /\ handlers[i].kind = "approve" /\ handlers[i].pc = "thread"
          /\ handlers[i].pending = pendingResponses["m1"]

\* The AI draft of id failed or was empty.
DraftFailed(id) == Len(hist.texts[id]) > 0 /\ hist.texts[id][1] = NoDraft

\* An edit-submit has stored a text for id.
EditSubmitted(id) == Len(hist.texts[id]) > 1

\* C37: a record whose draft failed is stored with the empty text and, until an
\* edit-submit, its notification offers Write Response and Skip only; Approve is
\* offered only with a non-empty draft or after an edit-submit; a record is
\* approved only with a draft or an edit behind it, and no empty text is published.
C37_NoApproveWithoutText ==
    /\ \A id \in MsgIds :
          /\ (DraftFailed(id) /\ ~EditSubmitted(id)) =>
                 /\ hist.offered[id] \subseteq {"edit", "reject"}
                 /\ id \in DOMAIN pendingResponses =>
                        heap[pendingResponses[id]].suggestedResponse = ""
          /\ "approve" \in hist.offered[id] => (~DraftFailed(id) \/ EditSubmitted(id))
          /\ id \in hist.approved => (~DraftFailed(id) \/ EditSubmitted(id))
    /\ \A k \in 1..Len(published) : published[k].text # ""

\* A record whose draft failed has been edited, approved and published.
C37_Witness ==
    /\ DraftFailed("m1")
    /\ "m1" \in hist.approved
    /\ \E k \in 1..Len(published) : published[k].id = "m1"

----------------------------------------------------------------------------
(* SpecSlackRoute: one Slack message of any text, to a bot that has talked
   with both users, delivered up to MaxRouted times.                         *)

SlackTexts == Concats(TextFragments, MaxWords)

InitSlackRoute ==
    /\ StateInit
    /\ arg \in [bot_id : BOOLEAN, msgId : {1}, text : SlackTexts, user : Users]
    /\ ret = NoSlackMessage
    /\ processedSlackMessages = << >>

NextSlackRoute ==
    \/ \E u \in Users : ret.n = 0 /\ AddToConversation(u, "user", "hello")
    \/ ret.n < MaxRouted /\ handleSlackMessage(arg)

SpecSlackRoute == InitSlackRoute /\ [][NextSlackRoute]_vars

\* The text the handler reads from the event in arg, lower-cased
LowerText == ToLowerCase(MessageText(arg))

\* The reply the precedence of the trigger words asks for
ExpectedReply ==
    IF \E w \in ClearWords : Includes(LowerText, w) THEN "cleared"
    ELSE IF \E w \in ThreadWords : Includes(LowerText, w) THEN "top-threads"
    ELSE "combined"

\* C38: a message that is processed (no bot message, first delivery, text left
\* after the mention is removed) gets exactly one reply: the confirmation, with
\* the sender's conversation memory cleared and nobody else's, if its lower-cased
\* text has one of the clear words; else the top-threads report if it has one of
\* the thread words; else the combined report, the memory staying as it was.
C38_RoutingByTriggerWords ==
    [][(ret'.n = 1 /\ ret.n = 0 /\ ~arg.bot_id /\ MessageText(arg) # << >>) =>
          /\ ret'.replies = <<ExpectedReply>>
          /\ IF ExpectedReply = "cleared"
             THEN conversations' = [u \in DOMAIN conversations \ {arg.user} |-> conversations[u]]
             ELSE conversations' = conversations
      ]_vars

\* A text with a clear word after a thread word was answered by the
\* confirmation, and the other user's history is still there.
C38_Witness ==
    /\ ret.n = 1 /\ ~arg.bot_id /\ arg.user = "U1"
    /\ arg.text = <<"T", "h", "r", "e", "a", "d", "s">> \o <<"S", "T", "A", "R", "T", " ", "o", "v", "e", "r">>
    /\ ret.replies = <<"cleared">>
    /\ DOMAIN conversations = {"U2"}
    /\ hist.appended["U1"] = {}

----------------------------------------------------------------------------
(* SpecSlackDedup: a long run of Slack messages; each delivery is of a new
   message, of the latest one again, or of the very first one again.         *)

SlackDeliveries ==
    {[bot_id |-> FALSE, msgId |-> id, text |-> <<"s", "t", "a", "t", "s">>, user |-> "U1"] :
        id \in {1, Cardinality(ret.seen), Cardinality(ret.seen) + 1} \ {0}}

InitSlackDedup ==
    /\ StateInit
    /\ arg = << >>
    /\ ret = NoSlackMessage
    /\ processedSlackMessages = << >>

NextSlackDedup ==
    \E event \in SlackDeliveries : ret.n < MaxSlackEvents /\ handleSlackMessage(event)

SpecSlackDedup == InitSlackDedup /\ [][NextSlackDedup]_vars

\* C40: a delivery of a Slack message whose id was delivered before sends no
\* reply and changes nothing, however many other messages came in between.
C40_RedeliveryIsSkipped ==
    [][(ret'.n # ret.n /\ ret'.msgId \in ret.seen) =>
          /\ ret'.replies = << >>
          /\ UNCHANGED <<processedSlackMessages, conversations, ledgerVars, timerVars, wfVars, hist>>
      ]_vars

----------------------------------------------------------------------------
(* SpecNotifyRace: the approval workflow of one message, with the posting of
   the notification in its two halves: Slack shows it, the call settles.     *)

NextNotifyRace ==
    \/ WelcomeMessageCreate("m1")
    \/ \E aiResponse \in AiAnswers : GenerateReturn("m1", aiResponse)
    \/ NotifyDelivered("m1")
    \/ \E ok \in BOOLEAN : NotifyResponse("m1", ok)
    \/ notif["m1"].shows = "none" /\ NotifyReturn("m1", FALSE)
    \/ \E kind \in Buttons \cup {SUBMIT}, text \in EditTexts \cup {""} :
          Interactive(kind, "m1", text)
    \/ \E i \in 1..MaxHandlers, ok \in BOOLEAN : AckReturn(i, ok)
    \/ \E i \in 1..MaxHandlers, ok \in BOOLEAN : SubmitUpdateReturn(i, ok)
    \/ \E i \in 1..MaxHandlers, ok \in BOOLEAN : StartThreadReturn(i, ok)
    \/ \E i \in 1..MaxHandlers, ok \in BOOLEAN : SendReturn(i, ok)
    \/ \E i \in 1..MaxHandlers, ok \in BOOLEAN : ApproveUpdateReturn(i, ok)
    \/ \E i \in 1..MaxHandlers, ok \in BOOLEAN : ModalReturn(i, ok)
    \/ \E i \in 1..MaxHandlers, ok \in BOOLEAN : SkipUpdateReturn(i, ok)
    \/ \E i \in 1..MaxHandlers, ok \in BOOLEAN : ExpireReturn(i, ok)

SpecNotifyRace == Init /\ [][NextNotifyRace]_vars

\* C39: when the handler of an approve, an edit-submit or a skip finds the
\* pending record of its id, the record has the channel and timestamp of its
\* notification.
C39_DecisionFindsNotificationIds ==
    [][\A i \in 1..MaxHandlers :
          (/\ handlers[i].pc = "ack"
           /\ handlers[i].kind \in {"approve", SUBMIT, "reject"}
           /\ handlers'[i].pending # 0)
          => heap[handlers'[i].pending].slackTs
      ]_vars

====
